---- MODULE Spec2Model ----
(***************************************************************************)
(* A model of the batch translation orchestrator of doctranslator:         *)
(*   - splitPdfIntoChunks / mergePdfs (src/src/translateDocument.js),      *)
(*   - translatePdfWithSplittingIfNeeded / translateDocumentBuffer,        *)
(*   - asyncPool and the POST /api/translate handler (src/src/server.js),  *)
(*   - ocrImageToText / translatePlainText (src/src/translateImage.js),    *)
(*   - translatePdfToDocxBuffer, and the translate-doc command             *)
(*     (src/src/cli.js).                                                   *)
(* A PDF is modelled by the sequence of its pages; the external            *)
(* translation and OCR capabilities answer nondeterministically.           *)
(***************************************************************************)
EXTENDS Integers, Sequences, FiniteSets, TLC

VARIABLES
  \* ---- splitPdfIntoChunks / mergePdfs applied as pure functions
  sStage,       \* "input" | "split" | "merged"
  sInput,       \* the buffer given to splitPdfIntoChunks
  sChunkSize,   \* the chunkSize argument, a rational <<num, den>>
  sSplit,       \* what splitPdfIntoChunks returned
  sMerged,      \* what mergePdfs returned on the chunks
  \* ---- one call of translateDocumentBuffer
  dArgs,        \* its arguments
  dpc,          \* where the call stands
  dChunks,      \* chunks returned by splitPdfIntoChunks
  dIdx,         \* 1-based position of the for...of loop over chunks
  dOutputs,     \* outputs
  dDetected,    \* detectedLanguageCode
  dCalls,       \* requests handed to client.translateDocument, in issue order
  dReported,    \* per reply received: how the call ended and the language it reported
  dLastReply,   \* the reply received last (NoReply until then)
  dSplitCalls,  \* number of invocations of splitPdfIntoChunks
  dMerges,      \* argument lists mergePdfs was invoked with, in order
  dResult,      \* the value returned (NoResult until then)
  dError,       \* the error thrown ("" until then)
  \* ---- one run of asyncPool(poolLimit, items, iteratorFn)
  pUnit,        \* which iteratorFn runs: "generic", "combineAll", "combineImages"
  pLimit,       \* poolLimit
  pItems,       \* items
  ppc,          \* "loop" (synchronous code), "await" (on Promise.race),
                \* "all" (on Promise.all), "done", "failed"
  pI,           \* number of loop iterations begun, i.e. Len(ret)
  pState,       \* per item: "none", "scheduled" (p created), "running"
                \* (iteratorFn invoked), "fulfilled", "rejected"
  pValue,       \* per item: what iteratorFn's promise settled with
  executing,    \* the Set executing, as item numbers
  racing,       \* the promises handed to the pending Promise.race
  pStarted,     \* item numbers in the order iteratorFn was invoked
  pSettled,     \* item numbers in the order the promises settled
  pResult,      \* the array asyncPool resolved with
  pError,       \* the error asyncPool rejected with
  \* ---- one request to POST /api/translate
  bCfg,         \* config: GCP_PROJECT_ID and IMAGE_BATCH_SIZE
  bReq,         \* req.body and the uploaded files
  bpc,          \* "start", "pool" (awaiting asyncPool), "archive" (in the
                \* builder's loop), "single", "responded"
  bSpacing,     \* betweenTranslationsLines
  bIdx,         \* the archive loop's position in uploadedFiles, from 1
  bEntries,     \* what archive.append was called with, in order
  bFinalized,   \* number of calls of archive.finalize
  bProcessed,   \* files whose processing was begun outside asyncPool, in order
  bResponses,   \* the responses sent, in order
  bTraces,      \* how the processing of each of those files went, in order
  bOutstanding, \* files of the archive loop whose processing has begun and not ended
  \* ---- the joining of labeled blocks into one text
  tStage,       \* "input", then "joined"
  tBlocks,      \* the blocks, in order
  tNormalize,   \* TRUE on the combineImages path, which normalizes while joining
  tRaw,         \* the form value of betweenTranslationsLines
  tText,        \* the combined text
  \* ---- one call of translateLocalDocument
  lArgs,        \* its arguments
  lpc,          \* "start", "translating", "write", "done", "failed"
  lReads,       \* paths read with fs.readFile, in order
  lWrites,      \* calls of fs.writeFile, in order
  lResult,      \* what it returned
  lError,       \* the message of the error it threw
  \* ---- the processing of one uploaded file, statement by statement
  iMode,        \* the path that processes it: "single", "archive",
                \* "combineAll", "combineImages"
  iFile,        \* the file
  iBodyMime,    \* req.body.mimeType
  ipc,          \* "start", "ocr_document", "ocr_fallback", "translate_text",
                \* "document", "extract", "done"
  iCalls,       \* calls made to Vision and to translateText, in issue order
  iReplies,     \* what those calls answered, in order
  iTrace,       \* how the processing ended
  iResponses,   \* responses sent for it
  iEntries,     \* archive entries appended for it
  iBlocks,      \* blocks its iteratorFn returned
  \* ---- one call of translatePdfToDocxBuffer
  cArgs,        \* its arguments
  cpc,          \* where the call stands
  cOps,         \* storage and translation operations attempted, in order
  cObjects,     \* the objects in the bucket under the job's two prefixes
  cListed,      \* outFiles, as listed by the cleanup
  cPending,     \* how the try block ended, held while finally runs
  cResult,      \* the value returned
  cError,       \* the message of the error thrown
  \* ---- several calls of translatePdfWithSplittingIfNeeded under way at once
  mDoc,         \* per call: its arguments, its position and its local variables
  \* ---- the response of a request whose archive fails
  rData,        \* bytes of the archive have been written to the response
  rPromise,     \* the promise respondZip returned: "pending", "rejected", or
                \* "handled" once the handler's catch has run
  rAttempts     \* the sends attempted on an archive error: by whom, and
                \* whether the response had been started by then

splitVars == <<sStage, sInput, sChunkSize, sSplit, sMerged>>
docVars == <<dArgs, dpc, dChunks, dIdx, dOutputs, dDetected, dCalls, dReported,
             dLastReply, dSplitCalls, dMerges, dResult, dError>>
poolVars == <<pUnit, pLimit, pItems, ppc, pI, pState, pValue, executing, racing,
              pStarted, pSettled, pResult, pError>>
batchVars == <<bCfg, bReq, bpc, bSpacing, bIdx, bEntries, bFinalized, bProcessed,
               bResponses, bTraces, bOutstanding>>
textVars == <<tStage, tBlocks, tNormalize, tRaw, tText>>
localVars == <<lArgs, lpc, lReads, lWrites, lResult, lError>>
itemVars == <<iMode, iFile, iBodyMime, ipc, iCalls, iReplies, iTrace, iResponses,
              iEntries, iBlocks>>
convVars == <<cArgs, cpc, cOps, cObjects, cListed, cPending, cResult, cError>>
multiVars == <<mDoc>>
respVars == <<rData, rPromise, rAttempts>>
vars == <<splitVars, docVars, poolVars, batchVars, textVars, localVars, itemVars,
          convVars, multiVars, respVars>>

\* ------------------------------------------------------------------ bounds
\* Largest page count of a document given to translateDocumentBuffer.
MaxPages == 45
\* Largest page count and largest chunkSize numerator given to the splitter
\* when it is exercised as a pure function.
MaxSplitPages == 8
MaxChunkNum == 7
\* Largest number of items and largest poolLimit of a run of asyncPool.
MaxItems == 3
MaxLimit == 3
\* Largest number of files uploaded with one request.
MaxFiles == 2

\* ------------------------------------------------------- program constants
\* translatePdfWithSplittingIfNeeded's default maxPagesPerRequest; no caller
\* passes another value.
DefaultMaxPagesPerRequest == 20

PDF == "application/pdf"
DOCX == "application/vnd.openxmlformats-officedocument.wordprocessingml.document"
PPTX == "application/vnd.openxmlformats-officedocument.presentationml.presentation"
XLSX == "application/vnd.openxmlformats-officedocument.spreadsheetml.sheet"
SUPPORTED_MIME_TYPES == {PDF, DOCX, PPTX, XLSX}

\* ------------------------------------------------------------ byte buffers
\* A buffer is empty, a parsable PDF (its pages in order), or other bytes
\* that pdf-lib cannot parse.  A page is identified by its index in the
\* document it was read from, and marked once it has been translated.
Page(n) == [n |-> n, tr |-> FALSE]
Pdf(pages) == [kind |-> "pdf", pages |-> pages]
EmptyBuffer == [kind |-> "empty", pages |-> <<>>]
OtherBytes == [kind |-> "bytes", pages |-> <<>>]
PdfOfPages(p) == Pdf([i \in 1..p |-> Page(i - 1)])
getPageCount(buf) == Len(buf.pages)

Min(a, b) == IF a < b THEN a ELSE b
Max(a, b) == IF a > b THEN a ELSE b
\* Math.floor of the rational num/den, den > 0.
Floor(q) == q[1] \div q[2]

\* ------------------------------------------------------ splitPdfIntoChunks
PageIndicesShort(start, end) == [i \in 1..(end - start - 1) |-> start + (i - 1)]
\* Array.from({ length: end - start }, (_v, i) => start + i)
PageIndices(start, end) == [i \in 1..(end - start) |-> start + (i - 1)]

\* doc.copyPages(src, pageIndices) then addPage of each, then save: the pages
\* of src at the given 0-based indices, in the order of the indices.
CopyPages(src, indices) == [i \in 1..Len(indices) |-> src.pages[indices[i] + 1]]

\* The for loop of splitPdfIntoChunks from `start`, having pushed `chunks`.
RECURSIVE SplitLoop(_, _, _, _)
SplitLoop(src, size, start, chunks) ==
  IF start < getPageCount(src)
  THEN LET end == Min(getPageCount(src), start + size)
           doc == Pdf(CopyPages(src, PageIndices(start, end)))
       IN SplitLoop(src, size, start + size, Append(chunks, doc))
  ELSE chunks

\* PDFDocument.load throws on bytes that are no PDF.
splitPdfIntoChunks(inputBuffer, chunkSize) ==
  IF inputBuffer.kind # "pdf"
  THEN [ok |-> FALSE, totalPages |-> 0, chunks |-> <<>>]
  ELSE LET size == Max(1, Floor(chunkSize))
       IN [ok |-> TRUE,
           totalPages |-> getPageCount(inputBuffer),
           chunks |-> SplitLoop(inputBuffer, size, 0, <<>>)]

\* --------------------------------------------------------------- mergePdfs
RECURSIVE MergeLoopPrepend(_, _, _)
MergeLoopPrepend(buffers, k, out) ==
  IF k > Len(buffers) THEN [ok |-> TRUE, buffer |-> Pdf(out)]
  ELSE IF buffers[k].kind # "pdf" THEN [ok |-> FALSE, buffer |-> EmptyBuffer]
  ELSE MergeLoopPrepend(buffers, k + 1,
         CopyPages(buffers[k], PageIndices(0, getPageCount(buffers[k]))) \o out)

\* The for...of loop of mergePdfs at buffer k, `out` holding the pages added
\* so far; PDFDocument.load throws on bytes that are no PDF.
RECURSIVE MergeLoop(_, _, _)
MergeLoop(buffers, k, out) ==
  IF k > Len(buffers) THEN [ok |-> TRUE, buffer |-> Pdf(out)]
  ELSE IF buffers[k].kind # "pdf" THEN [ok |-> FALSE, buffer |-> EmptyBuffer]
  ELSE MergeLoop(buffers, k + 1,
         out \o CopyPages(buffers[k], PageIndices(0, getPageCount(buffers[k]))))

mergePdfs(buffers) == MergeLoop(buffers, 1, <<>>)

\* ------------------------------------------- the external translate call
NoResult == [outputBuffer |-> EmptyBuffer, outputMimeType |-> "none",
             detectedLanguageCode |-> ""]
DetectedLanguages == {"", "en", "en-GB"}

\* What the translation capability makes of a buffer that it translates page
\* by page.
TranslatePages(buf) ==
  [buf EXCEPT !.pages = [i \in 1..Len(buf.pages) |-> [buf.pages[i] EXCEPT !.tr = TRUE]]]
DropLastPage(buf) ==
  IF Len(buf.pages) > 1
  THEN [buf EXCEPT !.pages = SubSeq(buf.pages, 1, Len(buf.pages) - 1)]
  ELSE buf
\* byteStreamOutputs[0] as the client library may hand it over: a Buffer, a
\* Uint8Array, a base64 string, or a falsy value; `data` is the bytes it
\* stands for.  The capability may answer with the document translated page
\* by page, with the same less its last page, or with bytes that are no PDF.
OutputStreams(content) ==
  [enc : {"buffer", "uint8array", "base64"}, data : {TranslatePages(content)}]
    \cup [enc : {"buffer"}, data : {TranslatePages(DropLastPage(content)), OtherBytes}]
    \cup {[enc |-> "falsy", data |-> EmptyBuffer]}
\* A reply of client.translateDocument: the call rejects ("throws"), or
\* resolves without documentTranslation.byteStreamOutputs[0] ("empty"), or
\* resolves with a first byte stream, a mimeType ("" when absent) and a
\* detectedLanguageCode ("" when absent).
NoStream == [enc |-> "falsy", data |-> EmptyBuffer]
NoReply == [kind |-> "none", stream |-> NoStream, mimeType |-> "", lang |-> ""]
Replies(request) ==
  {[kind |-> "throws", stream |-> NoStream, mimeType |-> "", lang |-> ""],
   [kind |-> "empty", stream |-> NoStream, mimeType |-> "", lang |-> ""]}
    \cup [kind : {"ok"}, stream : OutputStreams(request.content),
          mimeType : {"", request.mimeType}, lang : DetectedLanguages]
Reported(reply) == [kind |-> reply.kind, lang |-> reply.lang]

\* !translation || !translation.byteStreamOutputs || length < 1
NoByteStreamOutputsUnchecked(reply) == FALSE
NoByteStreamOutputs(reply) == reply.kind = "empty"
\* if (!value) return Buffer.alloc(0); every other case is the Buffer of the
\* bytes the value stands for.
normalizeBytesToBuffer(value) == IF value.enc = "falsy" THEN EmptyBuffer ELSE value.data
\* a || b on strings
OrElse(a, b) == IF a # "" THEN a ELSE b

ERR_PROJECT == "projectId obrigatorio"
ERR_TARGET == "targetLanguageCode obrigatorio"
ERR_MIME == "mimeType obrigatorio"
ERR_CONTENT == "content vazio"
ERR_UNSUPPORTED == "MIME type nao suportado"
ERR_PARSE == "pdf-lib: failed to parse PDF"
ERR_SERVICE == "translateDocument rejected"
ERR_EMPTY_OUTPUTS == "Resposta inesperada: byteStreamOutputs vazio."

\* The three tuning arguments: each is undefined, or a boolean.
TuningValues == {"undefined", "false", "true"}
NoTuning ==
  [isTranslateNativePdfOnly |-> "undefined", enableShadowRemovalNativePdf |-> "undefined",
   enableRotationCorrection |-> "undefined"]
\* if (typeof flag === 'boolean') request.flag = flag, for each of the three.
RequestTuning(a) ==
  [isTranslateNativePdfOnly |->
     IF a.tuning.isTranslateNativePdfOnly \in {"false", "true"}
     THEN a.tuning.isTranslateNativePdfOnly ELSE "undefined",
   enableShadowRemovalNativePdf |->
     IF a.tuning.enableShadowRemovalNativePdf \in {"false", "true"}
     THEN a.tuning.enableShadowRemovalNativePdf ELSE "undefined",
   enableRotationCorrection |->
     IF a.tuning.enableRotationCorrection \in {"false", "true"}
     THEN a.tuning.enableRotationCorrection ELSE "undefined"]

\* ------------------------------------------- states of the parts not running
SplitIdle ==
  /\ sStage = "idle" /\ sInput = EmptyBuffer /\ sChunkSize = <<1, 1>>
  /\ sSplit = [ok |-> FALSE, totalPages |-> 0, chunks |-> <<>>]
  /\ sMerged = [ok |-> FALSE, buffer |-> EmptyBuffer]

DocIdle ==
  /\ dArgs = [projectId |-> "", targetLanguageCode |-> "", sourceLanguageCode |-> "",
              mimeType |-> "", content |-> EmptyBuffer, tuning |-> NoTuning]
  /\ dpc = "idle"
  /\ dChunks = <<>> /\ dIdx = 0 /\ dOutputs = <<>> /\ dDetected = ""
  /\ dCalls = <<>> /\ dReported = <<>> /\ dLastReply = NoReply
  /\ dSplitCalls = 0 /\ dMerges = <<>>
  /\ dResult = NoResult /\ dError = ""

\* Items run 1..Len(items) here; the index handed to iteratorFn is one less.
\* What a promise settles with: fulfilled (ok) or rejected, and the value or
\* the error.
NoValue == [ok |-> FALSE, value |-> <<"pending">>]
NoError == <<"none">>

PoolIdle ==
  /\ pUnit = "generic" /\ pLimit = 0 /\ pItems = <<>> /\ ppc = "idle" /\ pI = 0
  /\ pState = <<>> /\ pValue = <<>> /\ executing = {} /\ racing = {}
  /\ pStarted = <<>> /\ pSettled = <<>> /\ pResult = <<>> /\ pError = NoError

NoRequest == [to |-> "", files |-> <<>>, combineImages |-> "absent",
              combineAllToTxt |-> "absent", mimeType |-> "",
              betweenTranslationsLines |-> [kind |-> "absent", q |-> <<0, 1>>],
              spacingLines |-> [kind |-> "absent", q |-> <<0, 1>>]]
BatchIdle ==
  /\ bCfg = [projectId |-> "", imageBatchSize |-> 0]
  /\ bReq = NoRequest
  /\ bpc = "idle" /\ bSpacing = 0 /\ bIdx = 0 /\ bEntries = <<>> /\ bFinalized = 0
  /\ bProcessed = <<>> /\ bResponses = <<>> /\ bTraces = <<>>
  /\ bOutstanding = {}
AbsentValue == [kind |-> "absent", q |-> <<0, 1>>]
TextIdle ==
  /\ tStage = "idle" /\ tBlocks = <<>> /\ tNormalize = FALSE /\ tRaw = AbsentValue
  /\ tText = <<>>
NoLocalArgs == [projectId |-> "", inputPath |-> "", outputPath |-> "", mimeType |-> "",
                targetLanguageCode |-> "", sourceLanguageCode |-> "", tuning |-> NoTuning]
NoLocalResult == [outputPath |-> "", outputMimeType |-> "", detectedLanguageCode |-> ""]
LocalIdle ==
  /\ lArgs = NoLocalArgs /\ lpc = "idle" /\ lReads = <<>> /\ lWrites = <<>>
  /\ lResult = NoLocalResult /\ lError = ""

NoFile == [originalname |-> "", mimetype |-> "", buffer |-> EmptyBuffer]
NoTrace == [end |-> "none", error |-> "", text |-> <<>>, buffer |-> EmptyBuffer]
ItemIdle ==
  /\ iMode = "none" /\ iFile = NoFile /\ iBodyMime = "" /\ ipc = "idle"
  /\ iCalls = <<>> /\ iReplies = <<>> /\ iTrace = NoTrace
  /\ iResponses = <<>> /\ iEntries = <<>> /\ iBlocks = <<>>
NoConvArgs == [projectId |-> "", targetLanguageCode |-> "", gcsBucket |-> "",
               content |-> EmptyBuffer]
NoOutcome == [kind |-> "none", error |-> "", buffer |-> EmptyBuffer]
MultiIdle == mDoc = <<>>
RespIdle == rData = FALSE /\ rPromise = "pending" /\ rAttempts = <<>>
ConvIdle ==
  /\ cArgs = NoConvArgs /\ cpc = "idle" /\ cOps = <<>> /\ cObjects = {}
  /\ cListed = <<>> /\ cPending = NoOutcome /\ cResult = NoResult /\ cError = ""

\* ------------------------------------------------- translateDocumentBuffer
\* The argument checks at the head of translateDocumentBuffer: the error
\* thrown, "" when there is none.
ValidationErrorAnyMime(a) ==
  IF a.projectId = "" THEN ERR_PROJECT
  ELSE IF a.targetLanguageCode = "" THEN ERR_TARGET
  ELSE IF a.mimeType = "" THEN ERR_MIME
  ELSE IF a.content.kind = "empty" THEN ERR_CONTENT
  ELSE ""
ValidationError(a) ==
  IF a.projectId = "" THEN ERR_PROJECT
  ELSE IF a.targetLanguageCode = "" THEN ERR_TARGET
  ELSE IF a.mimeType = "" THEN ERR_MIME
  ELSE IF a.content.kind = "empty" THEN ERR_CONTENT
  ELSE IF a.mimeType \notin SUPPORTED_MIME_TYPES THEN ERR_UNSUPPORTED
  ELSE ""

Fail(msg) ==
  /\ dpc' = "failed"
  /\ dError' = msg

\* Entry: the checks, then the pdf branch or the direct call.
Validate ==
  /\ dpc = "start"
  /\ IF ValidationError(dArgs) # ""
     THEN Fail(ValidationError(dArgs))
     ELSE /\ dpc' = IF dArgs.mimeType = PDF THEN "split" ELSE "direct_call"
          /\ UNCHANGED dError
  /\ UNCHANGED <<dArgs, dChunks, dIdx, dOutputs, dDetected, dCalls, dReported,
                 dLastReply, dSplitCalls, dMerges, dResult>>
  /\ UNCHANGED <<splitVars, poolVars, batchVars, textVars, localVars, itemVars,
                 convVars, multiVars, respVars>>

NeedsNoSplitStrict(totalPages, maxPagesPerRequest) == totalPages < maxPagesPerRequest
\* if (totalPages <= maxPagesPerRequest) return null;
NeedsNoSplit(totalPages, maxPagesPerRequest) == totalPages <= maxPagesPerRequest

\* translatePdfWithSplittingIfNeeded up to its loop: the split and the test
\* of the page count.
SplitIfNeeded ==
  /\ dpc = "split"
  /\ LET r == splitPdfIntoChunks(dArgs.content, <<DefaultMaxPagesPerRequest, 1>>)
     IN IF ~r.ok
        THEN Fail(ERR_PARSE) /\ UNCHANGED <<dChunks, dIdx>>
        ELSE IF NeedsNoSplit(r.totalPages, DefaultMaxPagesPerRequest)
        THEN /\ dpc' = "direct_call"
             /\ UNCHANGED <<dError, dChunks, dIdx>>
        ELSE /\ dChunks' = r.chunks
             /\ dIdx' = 1
             /\ dpc' = IF Len(r.chunks) >= 1 THEN "seg_call" ELSE "merge"
             /\ UNCHANGED dError
  /\ dSplitCalls' = dSplitCalls + 1
  /\ UNCHANGED <<dArgs, dOutputs, dDetected, dCalls, dReported, dLastReply, dMerges,
                 dResult>>
  /\ UNCHANGED <<splitVars, poolVars, batchVars, textVars, localVars, itemVars,
                 convVars, multiVars, respVars>>

\* const parent = `projects/${projectId}/locations/${location}`, the location
\* being config.GCP_LOCATION.
GCP_LOCATION == "global"
RequestParent(a) == <<"projects", a.projectId, "locations", GCP_LOCATION>>
\* if (sourceLanguageCode) request.sourceLanguageCode = sourceLanguageCode
RequestSource(a) ==
  IF a.sourceLanguageCode # "" THEN a.sourceLanguageCode ELSE "undefined"
\* A segment request that leaves the optional fields out.
SegmentRequestBare(a, chunk) ==
  [parent |-> RequestParent(a), targetLanguageCode |-> a.targetLanguageCode,
   sourceLanguageCode |-> "undefined",
   content |-> chunk, mimeType |-> PDF, segment |-> TRUE, tuning |-> NoTuning]
\* The request of one segment of a split document, and the request of the
\* direct call.
SegmentRequest(a, chunk) ==
  [parent |-> RequestParent(a), targetLanguageCode |-> a.targetLanguageCode,
   sourceLanguageCode |-> RequestSource(a),
   content |-> chunk, mimeType |-> PDF, segment |-> TRUE, tuning |-> RequestTuning(a)]
DirectRequest(a) ==
  [parent |-> RequestParent(a), targetLanguageCode |-> a.targetLanguageCode,
   sourceLanguageCode |-> RequestSource(a),
   content |-> a.content, mimeType |-> a.mimeType, segment |-> FALSE,
   tuning |-> RequestTuning(a)]

\* The loop body up to `await client.translateDocument(request)`.
IssueSegmentCall ==
  /\ dpc = "seg_call"
  /\ dCalls' = Append(dCalls, SegmentRequest(dArgs, dChunks[dIdx]))
  /\ dpc' = "seg_wait"
  /\ UNCHANGED <<dArgs, dChunks, dIdx, dOutputs, dDetected, dReported, dLastReply,
                 dSplitCalls, dMerges, dResult, dError>>
  /\ UNCHANGED <<splitVars, poolVars, batchVars, textVars, localVars, itemVars,
                 convVars, multiVars, respVars>>

KeepLast(current, reported) == OrElse(reported, current)
\* detectedLanguageCode = detectedLanguageCode || translation.detectedLanguageCode || ''
KeepFirst(current, reported) == OrElse(current, OrElse(reported, ""))

NextAfterSegmentEarly(idx, n) == IF idx + 1 < n THEN "seg_call" ELSE "merge"
\* for (const chunk of chunks): the next chunk, or the merge after the last.
NextAfterSegment(idx, n) == IF idx < n THEN "seg_call" ELSE "merge"

\* The rest of the loop body, when the awaited call settles.
SegmentReply ==
  /\ dpc = "seg_wait"
  /\ \E reply \in Replies(dCalls[Len(dCalls)]) :
       /\ dReported' = Append(dReported, Reported(reply))
       /\ dLastReply' = reply
       /\ IF reply.kind = "throws"
          THEN Fail(ERR_SERVICE) /\ UNCHANGED <<dIdx, dOutputs, dDetected>>
          ELSE IF NoByteStreamOutputs(reply)
          THEN Fail(ERR_EMPTY_OUTPUTS) /\ UNCHANGED <<dIdx, dOutputs, dDetected>>
          ELSE /\ dDetected' = KeepFirst(dDetected, reply.lang)
               /\ dOutputs' = Append(dOutputs, normalizeBytesToBuffer(reply.stream))
               /\ dIdx' = dIdx + 1
               /\ dpc' = NextAfterSegment(dIdx, Len(dChunks))
               /\ UNCHANGED dError
  /\ UNCHANGED <<dArgs, dChunks, dCalls, dSplitCalls, dMerges, dResult>>
  /\ UNCHANGED <<splitVars, poolVars, batchVars, textVars, localVars, itemVars,
                 convVars, multiVars, respVars>>

\* const merged = await mergePdfs(outputs); return {...}
MergeOutputs ==
  /\ dpc = "merge"
  /\ dMerges' = Append(dMerges, dOutputs)
  /\ LET m == mergePdfs(dOutputs)
     IN IF ~m.ok
        THEN Fail(ERR_PARSE) /\ UNCHANGED dResult
        ELSE /\ dResult' = [outputBuffer |-> m.buffer,
                            outputMimeType |-> PDF,
                            detectedLanguageCode |-> dDetected]
             /\ dpc' = "done"
             /\ UNCHANGED dError
  /\ UNCHANGED <<dArgs, dChunks, dIdx, dOutputs, dDetected, dCalls, dReported,
                 dLastReply, dSplitCalls>>
  /\ UNCHANGED <<splitVars, poolVars, batchVars, textVars, localVars, itemVars,
                 convVars, multiVars, respVars>>

\* translateDocumentBuffer after the pdf branch, up to its await.
IssueDirectCall ==
  /\ dpc = "direct_call"
  /\ dCalls' = Append(dCalls, DirectRequest(dArgs))
  /\ dpc' = "direct_wait"
  /\ UNCHANGED <<dArgs, dChunks, dIdx, dOutputs, dDetected, dReported, dLastReply,
                 dSplitCalls, dMerges, dResult, dError>>
  /\ UNCHANGED <<splitVars, poolVars, batchVars, textVars, localVars, itemVars,
                 convVars, multiVars, respVars>>

\* The tail of translateDocumentBuffer, when the awaited call settles.
DirectReply ==
  /\ dpc = "direct_wait"
  /\ \E reply \in Replies(dCalls[Len(dCalls)]) :
       /\ dReported' = Append(dReported, Reported(reply))
       /\ dLastReply' = reply
       /\ IF reply.kind = "throws"
          THEN Fail(ERR_SERVICE) /\ UNCHANGED dResult
          ELSE IF NoByteStreamOutputs(reply)
          THEN Fail(ERR_EMPTY_OUTPUTS) /\ UNCHANGED dResult
          ELSE /\ dResult' = [outputBuffer |-> normalizeBytesToBuffer(reply.stream),
                              outputMimeType |-> OrElse(reply.mimeType, dArgs.mimeType),
                              detectedLanguageCode |-> OrElse(reply.lang, "")]
               /\ dpc' = "done"
               /\ UNCHANGED dError
  /\ UNCHANGED <<dArgs, dChunks, dIdx, dOutputs, dDetected, dCalls, dSplitCalls,
                 dMerges>>
  /\ UNCHANGED <<splitVars, poolVars, batchVars, textVars, localVars, itemVars,
                 convVars, multiVars, respVars>>

\* The buffers a caller may hand over: nothing, bytes that are no PDF, or a
\* PDF of 0..MaxPages pages.
DocContents == {EmptyBuffer, OtherBytes} \cup {PdfOfPages(p) : p \in 0..MaxPages}
DocArgs ==
  [projectId : {"", "my-project"}, targetLanguageCode : {"", "pt"},
   mimeType : SUPPORTED_MIME_TYPES \cup {"", "text/plain"}, content : DocContents,
   sourceLanguageCode : {""}, tuning : {NoTuning}]

InitDoc ==
  /\ dArgs \in DocArgs
  /\ dpc = "start"
  /\ dChunks = <<>> /\ dIdx = 0 /\ dOutputs = <<>> /\ dDetected = ""
  /\ dCalls = <<>> /\ dReported = <<>> /\ dLastReply = NoReply
  /\ dSplitCalls = 0 /\ dMerges = <<>>
  /\ dResult = NoResult /\ dError = ""
  /\ SplitIdle
  /\ ItemIdle
  /\ ConvIdle
  /\ PoolIdle
  /\ BatchIdle
  /\ TextIdle
  /\ LocalIdle
  /\ MultiIdle
  /\ RespIdle

NextDoc ==
  \/ Validate
  \/ SplitIfNeeded
  \/ IssueSegmentCall
  \/ SegmentReply
  \/ MergeOutputs
  \/ IssueDirectCall
  \/ DirectReply

\* One call of translateDocumentBuffer against the external capability.
SpecDoc == InitDoc /\ [][NextDoc]_vars

\* Calls that differ in the languages and in the tuning flags, on a document
\* of one or two segments.
SegmentContents == {PdfOfPages(1), PdfOfPages(DefaultMaxPagesPerRequest + 1)}
SegmentArgs ==
  [projectId : {"my-project"}, targetLanguageCode : {"", "pt", "en"},
   sourceLanguageCode : {"", "en"}, mimeType : {PDF, DOCX}, content : SegmentContents,
   tuning : [isTranslateNativePdfOnly : TuningValues,
             enableShadowRemovalNativePdf : TuningValues,
             enableRotationCorrection : {"undefined", "true"}]]
InitSegments ==
  /\ dArgs \in SegmentArgs
  /\ dpc = "start"
  /\ dChunks = <<>> /\ dIdx = 0 /\ dOutputs = <<>> /\ dDetected = ""
  /\ dCalls = <<>> /\ dReported = <<>> /\ dLastReply = NoReply
  /\ dSplitCalls = 0 /\ dMerges = <<>>
  /\ dResult = NoResult /\ dError = ""
  /\ SplitIdle
  /\ ItemIdle
  /\ ConvIdle
  /\ PoolIdle
  /\ BatchIdle
  /\ TextIdle
  /\ LocalIdle
  /\ MultiIdle
  /\ RespIdle
SpecSegments == InitSegments /\ [][NextDoc]_vars

\* ------------------------------------- the splitter and merger on their own
ChunkSizes == {<<n, d>> : n \in (0 - 1)..MaxChunkNum, d \in {1, 2}}
SplitInputs == {OtherBytes} \cup {PdfOfPages(p) : p \in 0..MaxSplitPages}

InitSplit ==
  /\ sStage = "input"
  /\ sInput \in SplitInputs
  /\ sChunkSize \in ChunkSizes
  /\ sSplit = [ok |-> FALSE, totalPages |-> 0, chunks |-> <<>>]
  /\ sMerged = [ok |-> FALSE, buffer |-> EmptyBuffer]
  /\ ItemIdle
  /\ ConvIdle
  /\ DocIdle
  /\ PoolIdle
  /\ BatchIdle
  /\ TextIdle
  /\ LocalIdle
  /\ MultiIdle
  /\ RespIdle

DoSplit ==
  /\ sStage = "input"
  /\ sSplit' = splitPdfIntoChunks(sInput, sChunkSize)
  /\ sStage' = "split"
  /\ UNCHANGED <<sInput, sChunkSize, sMerged>>
  /\ UNCHANGED <<docVars, poolVars, batchVars, textVars, localVars, itemVars, convVars,
                 multiVars, respVars>>

DoMerge ==
  /\ sStage = "split"
  /\ sSplit.ok
  /\ sMerged' = mergePdfs(sSplit.chunks)
  /\ sStage' = "merged"
  /\ UNCHANGED <<sInput, sChunkSize, sSplit>>
  /\ UNCHANGED <<docVars, poolVars, batchVars, textVars, localVars, itemVars, convVars,
                 multiVars, respVars>>

NextSplit == DoSplit \/ DoMerge

\* splitPdfIntoChunks, then mergePdfs on what it returned.
SpecSplit == InitSplit /\ [][NextSplit]_vars

\* --------------------------------------- POST /api/translate: its helpers
OCTET_STREAM == "application/octet-stream"
IMAGE_PNG == "image/png"
TEXT_PLAIN == "text/plain"
\* Uploads: an image, a pdf sent under the generic MIME type, a pdf whose
\* bytes are no PDF, a file of an unsupported type, and a file with neither
\* a name nor a MIME type.
FileKinds ==
  {[originalname |-> "foto.png", mimetype |-> IMAGE_PNG, buffer |-> OtherBytes],
   [originalname |-> "doc.pdf", mimetype |-> OCTET_STREAM, buffer |-> PdfOfPages(1)],
   [originalname |-> "ruim.pdf", mimetype |-> PDF, buffer |-> OtherBytes],
   [originalname |-> "nota.txt", mimetype |-> TEXT_PLAIN, buffer |-> OtherBytes],
   [originalname |-> "", mimetype |-> "", buffer |-> OtherBytes]}

\* path.extname and path.basename(name, ext) on the names above.
extname(name) ==
  CASE name = "foto.png" -> ".png"
    [] name \in {"doc.pdf", "ruim.pdf"} -> ".pdf"
    [] name = "nota.txt" -> ".txt"
    [] OTHER -> ""
basename(name) ==
  CASE name = "foto.png" -> "foto"
    [] name = "doc.pdf" -> "doc"
    [] name = "ruim.pdf" -> "ruim"
    [] name = "nota.txt" -> "nota"
    [] OTHER -> name
\* mimeTypes.lookup(filename), '' when it finds nothing.
inferMimeTypeFromName(filename) ==
  CASE extname(filename) = ".png" -> IMAGE_PNG
    [] extname(filename) = ".pdf" -> PDF
    [] extname(filename) = ".txt" -> TEXT_PLAIN
    [] OTHER -> ""
safeBaseName(originalname) ==
  IF originalname = "" THEN "file" ELSE basename(originalname)
\* mimeType.startsWith('image/')
isImageMime(mimeType) == mimeType \in {IMAGE_PNG, "image/jpeg"}
\* String(value).trim().toLowerCase() in true, 1, yes, on; absent is false.
isTruthy(value) == value \in {"true", "1", "yes", "on"}
\* A form value is absent, '', text that is no number, text that reads as an
\* infinite number, or a number num/den.
parseSpacingLinesNoUpperLimit(value) ==
  IF value.kind \in {"absent", "empty", "nan", "inf"} THEN 0
  ELSE Max(0, Floor(value.q))
parseSpacingLines(value) ==
  IF value.kind \in {"absent", "empty", "nan", "inf"} THEN 0
  ELSE Max(0, Min(20, Floor(value.q)))
EffectiveMimeTypeDeclaredFirst(f) ==
  IF f.mimetype # "" THEN f.mimetype ELSE inferMimeTypeFromName(f.originalname)
\* uploadMime && uploadMime !== 'application/octet-stream' ? uploadMime : fallbackMime
EffectiveMimeType(f) ==
  IF f.mimetype # "" /\ f.mimetype # OCTET_STREAM
  THEN f.mimetype
  ELSE inferMimeTypeFromName(f.originalname)

\* Texts are sequences of pieces; "CRLF" and "LF" are the line ends, and the
\* messages are written without their accents.
normalizeTextForTxt(value) ==
  [i \in 1..Len(value) |-> IF value[i] = "CRLF" THEN "LF" ELSE value[i]]
blockSeparator(title) == <<"===== ", OrElse(title, "file"), " =====", "LF">>
RECURSIVE Repeat(_, _)
Repeat(piece, n) == IF n <= 0 THEN <<>> ELSE <<piece>> \o Repeat(piece, n - 1)

ERR_OCR == "vision call rejected"
ERR_TRANSLATE_TEXT == "translateText rejected"
ERR_EXTRACT == "text extraction failed"
TranslatedTexts == {<<"ola", "CRLF", "mundo">>}
ExtractedTexts == {<<"texto do documento">>}

\* How translateDocumentBuffer may end for given arguments: the error it
\* throws, or its result.
translateDocumentBufferEnds(a) ==
  IF ValidationError(a) # ""
  THEN {[ok |-> FALSE, error |-> ValidationError(a), buffer |-> EmptyBuffer]}
  ELSE IF a.mimeType = PDF /\ a.content.kind # "pdf"
  THEN {[ok |-> FALSE, error |-> ERR_PARSE, buffer |-> EmptyBuffer]}
  ELSE {[ok |-> FALSE, error |-> ERR_SERVICE, buffer |-> EmptyBuffer],
        [ok |-> FALSE, error |-> ERR_EMPTY_OUTPUTS, buffer |-> EmptyBuffer],
        [ok |-> TRUE, error |-> "", buffer |-> TranslatePages(a.content)]}

\* How the processing of one file may go, up to the point where the three
\* multi-file paths and the single-file path differ: `end` names the
\* statement reached, `error` what was thrown, `text` the translated or
\* extracted text, `buffer` the translated document.
Trace(end, error, text, buffer) ==
  [end |-> end, error |-> error, text |-> text, buffer |-> buffer]
ImageTraces ==
  {Trace("throws", ERR_OCR, <<>>, EmptyBuffer),
   Trace("no_text", "", <<>>, EmptyBuffer),
   Trace("throws", ERR_TRANSLATE_TEXT, <<>>, EmptyBuffer)}
    \cup {Trace("image_ok", "", t, EmptyBuffer) : t \in TranslatedTexts}
DocumentTraces(f, mimeType, extract) ==
  LET ends == translateDocumentBufferEnds(
                [projectId |-> bCfg.projectId, targetLanguageCode |-> bReq.to,
                 mimeType |-> mimeType, content |-> f.buffer])
  IN {Trace("throws", e.error, <<>>, EmptyBuffer) : e \in {x \in ends : ~x.ok}}
       \cup (IF extract
             THEN UNION {{Trace("throws", ERR_EXTRACT, <<>>, e.buffer)}
                           \cup {Trace("doc_ok", "", t, e.buffer) : t \in ExtractedTexts}
                         : e \in {x \in ends : x.ok}}
             ELSE {Trace("doc_ok", "", <<>>, e.buffer) : e \in {x \in ends : x.ok}})
Traces(f, extract) ==
  IF isImageMime(EffectiveMimeType(f)) THEN ImageTraces
  ELSE LET mimeType == OrElse(EffectiveMimeType(f), bReq.mimeType)
       IN IF mimeType = ""
          THEN {Trace("no_mime", "", <<>>, EmptyBuffer)}
          ELSE DocumentTraces(f, mimeType, extract)

Block(title, text) == [title |-> title, text |-> text]
Rethrown(title, error) == [ok |-> FALSE, value |-> <<error>>]
\* catch (err) { return { title, text: `[ERRO] ${err.message}` }; }
CaughtWithoutPrefix(title, error) == [ok |-> TRUE, value |-> Block(title, <<error>>)]
Caught(title, error) == [ok |-> TRUE, value |-> Block(title, <<"[ERRO] ", error>>)]

\* What the iteratorFn of the combineAllToTxt path settles with on file f,
\* when the processing went as t.
CombineAllBlock(f, t) ==
  LET title == OrElse(f.originalname, "file")
  IN CASE t.end = "throws" -> Caught(title, t.error)
       [] t.end = "no_text" ->
            [ok |-> TRUE, value |-> Block(title, <<"[ERRO] ", "OCR nao detectou texto.">>)]
       [] t.end = "no_mime" ->
            [ok |-> TRUE,
             value |-> Block(title, <<"[ERRO] ", "Nao foi possivel determinar o MIME type.">>)]
       [] t.end = "image_ok" ->
            [ok |-> TRUE, value |-> Block(title, normalizeTextForTxt(t.text))]
       [] OTHER -> [ok |-> TRUE, value |-> Block(title, t.text)]
\* The iteratorFn of the combineAllToTxt path, on file f.
CombineAllUnit(f) == {CombineAllBlock(f, t) : t \in Traces(f, TRUE)}

\* What the iteratorFn of the combineImages path settles with on file f (an
\* image), when the processing went as t.
CombineImagesBlockUntitled(f, t) ==
  LET title == f.originalname
  IN CASE t.end = "throws" -> Caught(title, t.error)
       [] t.end = "no_text" ->
            [ok |-> TRUE, value |-> Block(title, <<"[ERRO] ", "OCR nao detectou texto.">>)]
       [] OTHER -> [ok |-> TRUE, value |-> Block(title, t.text)]
CombineImagesBlock(f, t) ==
  LET title == OrElse(f.originalname, "image")
  IN CASE t.end = "throws" -> Caught(title, t.error)
       [] t.end = "no_text" ->
            [ok |-> TRUE, value |-> Block(title, <<"[ERRO] ", "OCR nao detectou texto.">>)]
       [] OTHER -> [ok |-> TRUE, value |-> Block(title, t.text)]
\* The iteratorFn of the combineImages path, on file f.
CombineImagesUnit(f) == {CombineImagesBlock(f, t) : t \in ImageTraces}

RECURSIVE CombineFromTrailing(_, _, _, _)
CombineFromTrailing(blocks, i, normalize, lines) ==
  IF i > Len(blocks) THEN <<>>
  ELSE blockSeparator(blocks[i].title)
         \o (IF normalize THEN normalizeTextForTxt(blocks[i].text) ELSE blocks[i].text)
         \o <<"LF">>
         \o (IF lines > 0 THEN Repeat("LF", lines) ELSE <<>>)
         \o CombineFromTrailing(blocks, i + 1, normalize, lines)
\* The loop that joins the blocks: separator, text, a line end, and the
\* blank lines between two blocks.
RECURSIVE CombineFrom(_, _, _, _)
CombineFrom(blocks, i, normalize, lines) ==
  IF i > Len(blocks) THEN <<>>
  ELSE blockSeparator(blocks[i].title)
         \o (IF normalize THEN normalizeTextForTxt(blocks[i].text) ELSE blocks[i].text)
         \o <<"LF">>
         \o (IF i < Len(blocks) /\ lines > 0 THEN Repeat("LF", lines) ELSE <<>>)
         \o CombineFrom(blocks, i + 1, normalize, lines)

EntryName(base, suffix, ext) == <<base>> \o suffix \o <<ext>>
\* An entry's data is a text or a buffer.
TextEntry(name, text) == [name |-> name, text |-> text, buffer |-> EmptyBuffer]
BufferEntry(name, buffer) == [name |-> name, text |-> <<>>, buffer |-> buffer]
ArchiveEntryAlwaysTranslation(f, t, to) ==
  BufferEntry(EntryName(safeBaseName(f.originalname), <<"_", to, "_translations">>,
                        extname(f.originalname)), t.buffer)
\* What the archive loop appends for file f when its processing went as t.
ArchiveEntry(f, t, to) ==
  LET base == safeBaseName(f.originalname)
  IN CASE t.end = "throws" ->
            TextEntry(EntryName(base, <<"_error">>, ".txt"), <<t.error, "LF">>)
       [] t.end = "no_text" ->
            TextEntry(EntryName(base, <<"_error">>, ".txt"),
                  <<"OCR did not detect any text in the image.", "LF">>)
       [] t.end = "no_mime" ->
            TextEntry(EntryName(base, <<"_error">>, ".txt"), <<"Could not determine MIME type.", "LF">>)
       [] t.end = "image_ok" ->
            TextEntry(EntryName(base, <<"_", to, "_translations">>, ".txt"), t.text)
       [] OTHER ->
            BufferEntry(EntryName(base, <<"_", to, "_translations">>,
                                  extname(f.originalname)), t.buffer)

\* ------------------------------------------------------------- asyncPool
\* The iteratorFn of a run that is not the handler's: it resolves with a
\* value made of its two arguments, or rejects on the item "bad"; on the
\* item "hung" the promise it returns never settles.
GenericUnit(item, i) ==
  IF item = "hung" THEN {}
  ELSE IF item = "bad"
  THEN {[ok |-> FALSE, value |-> <<"error", item, i>>]}
  ELSE {[ok |-> TRUE, value |-> <<"value", item, i>>]}

\* What iteratorFn(item, i) may settle with.
UnitOutcomes(unit, item, i) ==
  IF unit = "combineAll" THEN CombineAllUnit(item)
  ELSE IF unit = "combineImages" THEN CombineImagesUnit(item)
  ELSE GenericUnit(item, i)

\* The state asyncPool starts in, for given arguments.
PoolStart(unit, limit, items) ==
  /\ pUnit = unit /\ pLimit = limit /\ pItems = items /\ ppc = "loop" /\ pI = 0
  /\ pState = [k \in 1..Len(items) |-> "none"]
  /\ pValue = [k \in 1..Len(items) |-> NoValue]
  /\ executing = {} /\ racing = {}
  /\ pStarted = <<>> /\ pSettled = <<>> /\ pResult = <<>> /\ pError = NoError

AtCapacityOffByOne(size, poolLimit) == size > poolLimit
\* if (executing.size >= poolLimit)
AtCapacity(size, poolLimit) == size >= poolLimit

NextIndexByTwo(i) == i + 2
\* for (let i = 0; i < items.length; i += 1)
NextIndex(i) == i + 1

\* One iteration of the for loop: p is created (its callback queued as a
\* microtask), pushed on ret, added to executing, and the loop goes on or
\* awaits Promise.race(executing).
LoopIteration ==
  /\ ppc = "loop"
  /\ pI < Len(pItems)
  /\ LET k == pI + 1
     IN /\ pI' = NextIndex(pI)
        /\ pState' = [pState EXCEPT ![k] = "scheduled"]
        /\ executing' = executing \cup {k}
        /\ IF AtCapacity(Cardinality(executing \cup {k}), pLimit)
           THEN ppc' = "await" /\ racing' = executing \cup {k}
           ELSE ppc' = "loop" /\ racing' = racing
  /\ UNCHANGED <<pUnit, pLimit, pItems, pValue, pStarted, pSettled, pResult, pError>>
  /\ UNCHANGED <<splitVars, docVars, batchVars, textVars, localVars, itemVars,
                 convVars, multiVars, respVars>>

\* The loop has ended: return Promise.all(ret).
LoopEnd ==
  /\ ppc = "loop"
  /\ pI = Len(pItems)
  /\ ppc' = "all"
  /\ UNCHANGED <<pUnit, pLimit, pItems, pI, pState, pValue, executing, racing,
                 pStarted, pSettled, pResult, pError>>
  /\ UNCHANGED <<splitVars, docVars, batchVars, textVars, localVars, itemVars,
                 convVars, multiVars, respVars>>

\* The microtask of p: iteratorFn(item, i) is invoked.  Microtasks run in
\* the order queued, and only once the synchronous code has yielded.
Invoke(k) ==
  /\ ppc # "loop"
  /\ pState[k] = "scheduled"
  /\ \A j \in 1..(k - 1) : pState[j] # "scheduled"
  /\ pState' = [pState EXCEPT ![k] = "running"]
  /\ pStarted' = Append(pStarted, k)
  /\ UNCHANGED <<pUnit, pLimit, pItems, ppc, pI, pValue, executing, racing,
                 pSettled, pResult, pError>>
  /\ UNCHANGED <<splitVars, docVars, batchVars, textVars, localVars, itemVars,
                 convVars, multiVars, respVars>>

\* The promise iteratorFn returned settles, and p with it.
Settle(k) ==
  /\ ppc # "loop"
  /\ pState[k] = "running"
  /\ \E o \in UnitOutcomes(pUnit, pItems[k], k - 1) :
       /\ pValue' = [pValue EXCEPT ![k] = o]
       /\ pState' = [pState EXCEPT ![k] = IF o.ok THEN "fulfilled" ELSE "rejected"]
  /\ pSettled' = Append(pSettled, k)
  /\ UNCHANGED <<pUnit, pLimit, pItems, ppc, pI, executing, racing, pStarted,
                 pResult, pError>>
  /\ UNCHANGED <<splitVars, docVars, batchVars, textVars, localVars, itemVars,
                 convVars, multiVars, respVars>>

\* p.finally(() => executing.delete(p)): the first reaction of p.
Finally(k) ==
  /\ ppc # "loop"
  /\ pState[k] \in {"fulfilled", "rejected"}
  /\ k \in executing
  /\ executing' = executing \ {k}
  /\ UNCHANGED <<pUnit, pLimit, pItems, ppc, pI, pState, pValue, racing, pStarted,
                 pSettled, pResult, pError>>
  /\ UNCHANGED <<splitVars, docVars, batchVars, textVars, localVars, itemVars,
                 convVars, multiVars, respVars>>

\* The first of a set of promises to settle, by the order they settled in.
RECURSIVE FirstSettledFrom(_, _, _)
FirstSettledFrom(order, set, i) ==
  IF i > Len(order) THEN 0
  ELSE IF order[i] \in set THEN order[i]
  ELSE FirstSettledFrom(order, set, i + 1)
OldestIfSettled(set) ==
  LET m == CHOOSE k \in set : \A j \in set : k <= j
  IN IF pState[m] \in {"fulfilled", "rejected"} THEN m ELSE 0
FirstSettled(set) == FirstSettledFrom(pSettled, set, 1)

\* `await Promise.race(executing)` resumes: the race settles as the first of
\* its promises to settle did, after that promise's own finally reaction.
RaceSettles ==
  /\ ppc = "await"
  /\ LET w == FirstSettled(racing)
     IN /\ w # 0
        /\ w \notin executing
        /\ IF pState[w] = "fulfilled"
           THEN ppc' = "loop" /\ pError' = pError
           ELSE ppc' = "failed" /\ pError' = pValue[w].value
  /\ racing' = {}
  /\ UNCHANGED <<pUnit, pLimit, pItems, pI, pState, pValue, executing, pStarted,
                 pSettled, pResult>>
  /\ UNCHANGED <<splitVars, docVars, batchVars, textVars, localVars, itemVars,
                 convVars, multiVars, respVars>>

ResultsByCompletion(ret) == [i \in 1..Len(ret) |-> pValue[pSettled[i]].value]
\* Promise.all(ret) fulfilled: the values of the promises, in ret's order.
ResultsInOrder(ret) == [i \in 1..Len(ret) |-> pValue[ret[i]].value]

RejectedIgnored(n) == {}
\* The promises of ret that have rejected.
Rejected(n) == {k \in 1..n : pState[k] = "rejected"}

\* Promise.all(ret) settles: fulfilled once every promise is, rejected as
\* the first of them to reject.
AllSettles ==
  /\ ppc = "all"
  /\ LET ret == [i \in 1..pI |-> i]
         bad == Rejected(pI)
     IN IF bad # {}
        THEN /\ ppc' = "failed"
             /\ pError' = pValue[FirstSettled(bad)].value
             /\ UNCHANGED pResult
        ELSE /\ \A k \in 1..pI : pState[k] = "fulfilled"
             /\ ppc' = "done"
             /\ pResult' = ResultsInOrder(ret)
             /\ UNCHANGED pError
  /\ UNCHANGED <<pUnit, pLimit, pItems, pI, pState, pValue, executing, racing,
                 pStarted, pSettled>>
  /\ UNCHANGED <<splitVars, docVars, batchVars, textVars, localVars, itemVars,
                 convVars, multiVars, respVars>>

NextPool ==
  \/ LoopIteration
  \/ LoopEnd
  \/ \E k \in 1..Len(pItems) : Invoke(k)
  \/ \E k \in 1..Len(pItems) : Settle(k)
  \/ \E k \in 1..Len(pItems) : Finally(k)
  \/ RaceSettles
  \/ AllSettles

PoolLimits == (0 - 1)..MaxLimit
PoolItems == UNION {[1..n -> {"a", "b", "bad"}] : n \in 0..MaxItems}

InitPool ==
  /\ \E limit \in PoolLimits, items \in PoolItems : PoolStart("generic", limit, items)
  /\ SplitIdle
  /\ ItemIdle
  /\ ConvIdle
  /\ DocIdle
  /\ BatchIdle
  /\ TextIdle
  /\ LocalIdle
  /\ MultiIdle
  /\ RespIdle

\* One run of asyncPool with an iteratorFn that may reject.
SpecPool == InitPool /\ [][NextPool]_vars

\* The same run where the steps of the runtime are taken once they can be:
\* the loop goes on, queued callbacks and promise reactions run.  Nothing makes
\* an invocation of iteratorFn complete.
InitPoolFair ==
  /\ \E limit \in PoolLimits, items \in UNION {[1..n -> {"a", "bad"}] : n \in 0..MaxItems} :
       PoolStart("generic", limit, items)
  /\ SplitIdle
  /\ ItemIdle
  /\ ConvIdle
  /\ DocIdle
  /\ BatchIdle
  /\ TextIdle
  /\ LocalIdle
  /\ MultiIdle
  /\ RespIdle
SpecPoolFair ==
  /\ InitPoolFair /\ [][NextPool]_vars
  /\ WF_vars(LoopIteration)
  /\ WF_vars(LoopEnd)
  /\ WF_vars(\E k \in 1..Len(pItems) : Invoke(k))
  /\ WF_vars(\E k \in 1..Len(pItems) : Finally(k))
  /\ WF_vars(RaceSettles)
  /\ WF_vars(AllSettles)

\* A run in which units of work may hang and none rejects.  Every unit
\* that can settle eventually does: the other units complete, and the
\* event loop runs every reaction that is ready.
InitPoolHang ==
  /\ \E limit \in PoolLimits, items \in UNION {[1..n -> {"a", "hung"}] : n \in 0..MaxItems} :
       PoolStart("generic", limit, items)
  /\ SplitIdle
  /\ ItemIdle
  /\ ConvIdle
  /\ DocIdle
  /\ BatchIdle
  /\ TextIdle
  /\ LocalIdle
  /\ MultiIdle
  /\ RespIdle
SpecPoolHang ==
  /\ InitPoolHang /\ [][NextPool]_vars
  /\ WF_vars(LoopIteration)
  /\ WF_vars(LoopEnd)
  /\ WF_vars(\E k \in 1..Len(pItems) : Invoke(k))
  /\ WF_vars(\E k \in 1..Len(pItems) : Settle(k))
  /\ WF_vars(\E k \in 1..Len(pItems) : Finally(k))
  /\ WF_vars(RaceSettles)
  /\ WF_vars(AllSettles)

\* A run in which every invocation of iteratorFn completes, by resolving or
\* by rejecting, and the event loop runs every reaction that is ready.
SpecPoolLive ==
  /\ InitPoolFair /\ [][NextPool]_vars
  /\ WF_vars(LoopIteration)
  /\ WF_vars(LoopEnd)
  /\ WF_vars(\E k \in 1..Len(pItems) : Invoke(k))
  /\ WF_vars(\E k \in 1..Len(pItems) : Settle(k))
  /\ WF_vars(\E k \in 1..Len(pItems) : Finally(k))
  /\ WF_vars(RaceSettles)
  /\ WF_vars(AllSettles)

\* ---------------------------------------------------- POST /api/translate
\* A response: its status, what it carries (a message or text, a document,
\* or the archive's entries) and the file name it is sent under.
Response(status, type, filename, text, buffer, entries) ==
  [status |-> status, type |-> type, filename |-> filename, text |-> text,
   buffer |-> buffer, entries |-> entries]
Message(status, text) == Response(status, "message", <<>>, text, EmptyBuffer, <<>>)
Respond(r) ==
  /\ bResponses' = Append(bResponses, r)
  /\ bpc' = "responded"

RequestErrorSkippingTarget(cfg, req) ==
  IF cfg.projectId = "" THEN "Missing projectId. Set GCP_PROJECT_ID in .env."
  ELSE IF Len(req.files) = 0 THEN "Missing file upload (field name: files)"
  ELSE ""
\* The message of the 400 answer a request is turned away with, "" if none.
RequestError(cfg, req) ==
  IF cfg.projectId = "" THEN "Missing projectId. Set GCP_PROJECT_ID in .env."
  ELSE IF req.to = "" THEN "Missing required field: to"
  ELSE IF Len(req.files) = 0 THEN "Missing file upload (field name: files)"
  ELSE ""

AnyImage(files) ==
  \E k \in 1..Len(files) : isImageMime(EffectiveMimeType(files[k]))
\* classified.every(({ effectiveMimeType }) => isImageMime(effectiveMimeType))
AllImages(files) ==
  \A k \in 1..Len(files) : isImageMime(EffectiveMimeType(files[k]))

\* The handler up to its first await: the 400 answers, the reading of the
\* flags, and the choice among the combined-text paths, the archive and the
\* single-file path.
HandlerStart ==
  /\ bpc = "start"
  /\ bSpacing' = parseSpacingLines(
                   IF bReq.betweenTranslationsLines.kind # "absent"
                   THEN bReq.betweenTranslationsLines ELSE bReq.spacingLines)
  /\ LET n == Len(bReq.files)
         allImages == AllImages(bReq.files)
         pooled == /\ n > 1
                   /\ \/ isTruthy(bReq.combineAllToTxt)
                      \/ isTruthy(bReq.combineImages) /\ allImages
     IN /\ IF RequestError(bCfg, bReq) # ""
           THEN Respond(Message(400, <<RequestError(bCfg, bReq)>>))
           ELSE /\ bpc' = IF pooled THEN "pool" ELSE IF n > 1 THEN "archive" ELSE "single"
                /\ UNCHANGED bResponses
        /\ IF RequestError(bCfg, bReq) = "" /\ pooled
           THEN /\ pUnit' = IF isTruthy(bReq.combineAllToTxt) THEN "combineAll"
                            ELSE "combineImages"
                /\ pLimit' = bCfg.imageBatchSize
                /\ pItems' = bReq.files
                /\ ppc' = "loop"
                /\ pState' = [k \in 1..n |-> "none"]
                /\ pValue' = [k \in 1..n |-> NoValue]
                /\ UNCHANGED <<pI, executing, racing, pStarted, pSettled, pResult, pError>>
           ELSE UNCHANGED poolVars
  /\ bIdx' = 1
  /\ UNCHANGED <<bCfg, bReq, bEntries, bFinalized, bProcessed, bTraces, bOutstanding>>
  /\ UNCHANGED <<splitVars, docVars, textVars, localVars, itemVars, convVars,
                 multiVars, respVars>>

\* `await asyncPool(...)` resumes: the blocks are joined and sent, or the
\* rejection lands in the handler's catch.
PoolReturns ==
  /\ bpc = "pool"
  /\ ppc \in {"done", "failed"}
  /\ IF ppc = "done"
     THEN Respond(Response(200, "text/plain",
            <<(IF pUnit = "combineAll" THEN "combined_" ELSE "images_"), bReq.to,
              "_translations.txt">>,
            CombineFrom(pResult, 1, pUnit = "combineImages", bSpacing),
            EmptyBuffer, <<>>))
     ELSE Respond(Message(500, pError))
  /\ UNCHANGED <<bCfg, bReq, bSpacing, bIdx, bEntries, bFinalized, bProcessed, bTraces, bOutstanding>>
  /\ UNCHANGED <<splitVars, docVars, poolVars, textVars, localVars, itemVars, convVars,
                 multiVars, respVars>>

\* An iteration of the builder's for...of loop begins: the file's
\* processing starts, and the loop awaits it.
ArchiveItemStart ==
  /\ bpc = "archive"
  /\ bIdx <= Len(bReq.files)
  /\ bOutstanding = {}
  /\ bOutstanding' = {bIdx}
  /\ UNCHANGED <<bCfg, bReq, bpc, bSpacing, bIdx, bEntries, bFinalized, bProcessed,
                 bResponses, bTraces>>
  /\ UNCHANGED <<splitVars, docVars, poolVars, textVars, localVars, itemVars, convVars,
                 multiVars, respVars>>

\* The iteration ends: the awaited processing is over and one entry is
\* appended, the translation or the error text.
ArchiveItemEnd ==
  /\ bpc = "archive"
  /\ bOutstanding = {bIdx}
  /\ bOutstanding' = {}
  /\ \E t \in Traces(bReq.files[bIdx], FALSE) :
       /\ bEntries' = Append(bEntries, ArchiveEntry(bReq.files[bIdx], t, bReq.to))
       /\ bTraces' = Append(bTraces, t)
  /\ bProcessed' = Append(bProcessed, bIdx)
  /\ bIdx' = bIdx + 1
  /\ UNCHANGED <<bCfg, bReq, bpc, bSpacing, bFinalized, bResponses>>
  /\ UNCHANGED <<splitVars, docVars, poolVars, textVars, localVars, itemVars, convVars,
                 multiVars, respVars>>

\* The builder returns: respondZip finalizes the archive, which ends the
\* response it is piped to.
ArchiveFinalize ==
  /\ bpc = "archive"
  /\ bIdx > Len(bReq.files)
  /\ bFinalized' = bFinalized + 1
  /\ IF rPromise = "pending"
     THEN Respond(Response(200, "application/zip", <<"translations.zip">>, <<>>,
                           EmptyBuffer, bEntries))
     ELSE bpc' = "closed" /\ UNCHANGED bResponses
  /\ UNCHANGED <<bCfg, bReq, bSpacing, bIdx, bEntries, bProcessed, bTraces, bOutstanding>>
  /\ UNCHANGED <<splitVars, docVars, poolVars, textVars, localVars, itemVars, convVars,
                 multiVars, respVars>>

SingleResponseNoTextAsThrown(f, t, to) ==
  CASE t.end = "throws" -> Message(500, <<t.error>>)
    [] t.end = "no_text" ->
         Message(500, <<"OCR did not detect any text in the image.">>)
    [] t.end = "no_mime" ->
         Message(400, <<"Could not determine MIME type. Please upload a supported file.">>)
    [] t.end = "image_ok" ->
         Response(200, "text/plain",
                  EntryName(safeBaseName(f.originalname), <<"_", to, "_translations">>,
                            ".txt"),
                  t.text, EmptyBuffer, <<>>)
    [] OTHER ->
         Response(200, "document",
                  EntryName(OrElse(safeBaseName(f.originalname), "document"),
                            <<"_", to, "_translations">>, extname(f.originalname)),
                  <<>>, t.buffer, <<>>)
\* What the single-file path answers for file f when its processing went
\* as t.
SingleResponse(f, t, to) ==
  CASE t.end = "throws" -> Message(500, <<t.error>>)
    [] t.end = "no_text" ->
         Message(422, <<"OCR did not detect any text in the image.">>)
    [] t.end = "no_mime" ->
         Message(400, <<"Could not determine MIME type. Please upload a supported file.">>)
    [] t.end = "image_ok" ->
         Response(200, "text/plain",
                  EntryName(safeBaseName(f.originalname), <<"_", to, "_translations">>,
                            ".txt"),
                  t.text, EmptyBuffer, <<>>)
    [] OTHER ->
         Response(200, "document",
                  EntryName(OrElse(safeBaseName(f.originalname), "document"),
                            <<"_", to, "_translations">>, extname(f.originalname)),
                  <<>>, t.buffer, <<>>)

\* The single-file path, to its response.
SingleFile ==
  /\ bpc = "single"
  /\ LET f == bReq.files[1]
     IN \E t \in Traces(f, FALSE) :
          /\ bTraces' = Append(bTraces, t)
          /\ Respond(SingleResponse(f, t, bReq.to))
  /\ bProcessed' = Append(bProcessed, 1)
  /\ UNCHANGED <<bCfg, bReq, bSpacing, bIdx, bEntries, bFinalized, bOutstanding>>
  /\ UNCHANGED <<splitVars, docVars, poolVars, textVars, localVars, itemVars, convVars,
                 multiVars, respVars>>

Uploads == UNION {[1..n -> FileKinds] : n \in 0..MaxFiles}
FormFlags == {"absent", "true"}
SpacingValues == {[kind |-> "absent", q |-> <<0, 1>>], [kind |-> "number", q |-> <<5, 2>>]}
BatchRequests ==
  [to : {"", "pt"}, files : Uploads, combineImages : FormFlags,
   combineAllToTxt : FormFlags, mimeType : {""},
   betweenTranslationsLines : SpacingValues,
   spacingLines : {[kind |-> "absent", q |-> <<0, 1>>]}]
\* IMAGE_BATCH_SIZE is whatever number the environment sets; these two make
\* the pool both wait for a free slot and run two files at once.
ImageBatchSizes == {1, 2}
BatchConfigs == [projectId : {"", "my-project"}, imageBatchSize : ImageBatchSizes]

InitBatch ==
  /\ bCfg \in BatchConfigs
  /\ bReq \in BatchRequests
  /\ bpc = "start" /\ bSpacing = 0 /\ bIdx = 0 /\ bEntries = <<>> /\ bFinalized = 0
  /\ bProcessed = <<>> /\ bResponses = <<>> /\ bTraces = <<>>
  /\ bOutstanding = {}
  /\ PoolIdle
  /\ SplitIdle
  /\ ItemIdle
  /\ ConvIdle
  /\ DocIdle
  /\ TextIdle
  /\ LocalIdle
  /\ MultiIdle
  /\ RespIdle

NextBatch ==
  \/ HandlerStart
  \/ PoolReturns
  \/ ArchiveItemStart
  \/ ArchiveItemEnd
  \/ ArchiveFinalize
  \/ SingleFile
  \/ LoopIteration
  \/ LoopEnd
  \/ \E k \in 1..Len(pItems) : Invoke(k)
  \/ \E k \in 1..Len(pItems) : Settle(k)
  \/ \E k \in 1..Len(pItems) : Finally(k)
  \/ RaceSettles
  \/ AllSettles

\* One request to POST /api/translate.
SpecBatch == InitBatch /\ [][NextBatch]_vars

\* The archive's 'error' event.  The archiver emits it when it cannot go on,
\* at any time while the archive is being built.
ERR_ARCHIVE == "archiver: error"
\* res.headersSent: a response was sent, or bytes of the archive were
\* written to the response the archive is piped to.
headersSent == rData \/ bResponses # <<>>
SendAttempt(by, started) == [by |-> by, started |-> started]

\* archive.pipe(res) at work: the first bytes of the archive reach the
\* response.
ArchiveFlows ==
  /\ bpc = "archive"
  /\ bEntries # <<>>
  /\ ~headersSent
  /\ rData' = TRUE
  /\ UNCHANGED <<rPromise, rAttempts>>
  /\ UNCHANGED <<splitVars, docVars, poolVars, batchVars, textVars, localVars, itemVars,
                 convVars, multiVars>>

\* archive.on('error', ...): 500 is sent unless the headers were, and the
\* promise of respondZip is rejected.  The builder goes on.
ArchiveErrors ==
  /\ bpc = "archive"
  /\ rPromise = "pending"
  /\ IF ~headersSent
     THEN /\ bResponses' = Append(bResponses, Message(500, <<ERR_ARCHIVE>>))
          /\ rAttempts' = Append(rAttempts, SendAttempt("archive.on(error)", FALSE))
     ELSE UNCHANGED <<bResponses, rAttempts>>
  /\ rPromise' = "rejected"
  /\ UNCHANGED rData
  /\ UNCHANGED <<bCfg, bReq, bpc, bSpacing, bIdx, bEntries, bFinalized, bProcessed,
                 bTraces, bOutstanding>>
  /\ UNCHANGED <<splitVars, docVars, poolVars, textVars, localVars, itemVars, convVars,
                 multiVars>>

\* `await respondZip(...)` throws into the handler's catch:
\* return res.status(500).send(err.message), which throws when the headers
\* were sent.
HandlerCatches ==
  /\ rPromise = "rejected"
  /\ rAttempts' = Append(rAttempts, SendAttempt("catch", headersSent))
  /\ IF ~headersSent
     THEN bResponses' = Append(bResponses, Message(500, <<ERR_ARCHIVE>>))
     ELSE UNCHANGED bResponses
  /\ rPromise' = "handled"
  /\ UNCHANGED rData
  /\ UNCHANGED <<bCfg, bReq, bpc, bSpacing, bIdx, bEntries, bFinalized, bProcessed,
                 bTraces, bOutstanding>>
  /\ UNCHANGED <<splitVars, docVars, poolVars, textVars, localVars, itemVars, convVars,
                 multiVars>>

NextBatchError ==
  \/ NextBatch
  \/ ArchiveFlows
  \/ ArchiveErrors
  \/ HandlerCatches

\* One request to POST /api/translate whose archive may fail.
SpecBatchError == InitBatch /\ [][NextBatchError]_vars

\* --------------------------------------------------- translateLocalDocument
ERR_INPUT_PATH == "inputPath obrigatorio"
ERR_INFER == "Nao foi possivel inferir o MIME type."
ERR_ENOENT == "ENOENT: no such file or directory"
ERR_WRITE == "EACCES: permission denied"
\* The files on disk: a pdf of one page, one over the page limit, an empty
\* one, a text file and a file without extension; "falta.pdf" does not exist.
\* The command line is also given "in.docx".
LocalPaths == {"", "in.pdf", "grande.pdf", "vazio.pdf", "in.txt", "in", "falta.pdf"}
FileAt(path) ==
  CASE path = "in.pdf" -> PdfOfPages(1)
    [] path = "grande.pdf" -> PdfOfPages(DefaultMaxPagesPerRequest + 1)
    [] path = "vazio.pdf" -> EmptyBuffer
    [] OTHER -> OtherBytes
localExtname(path) ==
  CASE path \in {"in.pdf", "grande.pdf", "vazio.pdf", "falta.pdf"} -> ".pdf"
    [] path = "in.txt" -> ".txt"
    [] path = "foto.png" -> ".png"
    [] path = "in.docx" -> ".docx"
    [] OTHER -> ""
localBasename(path) ==
  CASE path = "in.pdf" -> "in"
    [] path = "grande.pdf" -> "grande"
    [] path = "vazio.pdf" -> "vazio"
    [] path = "falta.pdf" -> "falta"
    [] path \in {"in.txt", "in.docx"} -> "in"
    [] path = "foto.png" -> "foto"
    [] OTHER -> path
\* mime.lookup(inputPath), undefined (here "") when it finds nothing.
inferMimeType(inputPath) ==
  CASE localExtname(inputPath) = ".pdf" -> PDF
    [] localExtname(inputPath) = ".txt" -> TEXT_PLAIN
    [] localExtname(inputPath) = ".docx" -> DOCX
    [] localExtname(inputPath) = ".png" -> IMAGE_PNG
    [] OTHER -> ""
\* mime.extension(mimeType) with its leading dot, undefined (here "") if none.
extForMimeType(mimeType) ==
  CASE mimeType = PDF -> ".pdf"
    [] mimeType = DOCX -> ".docx"
    [] mimeType = PPTX -> ".pptx"
    [] mimeType = XLSX -> ".xlsx"
    [] mimeType = TEXT_PLAIN -> ".txt"
    [] OTHER -> ""
defaultOutputPath(inputPath, targetLanguageCode, outputExt) ==
  <<localBasename(inputPath), "_", targetLanguageCode, "_translations",
    OrElse(outputExt, localExtname(inputPath))>>

\* The checks before the file is read: the message thrown, "" if none.
LocalError(a) ==
  IF a.inputPath = "" THEN ERR_INPUT_PATH
  ELSE IF a.targetLanguageCode = "" THEN ERR_TARGET
  ELSE IF OrElse(a.mimeType, inferMimeType(a.inputPath)) = "" THEN ERR_INFER
  ELSE IF OrElse(a.mimeType, inferMimeType(a.inputPath)) \notin SUPPORTED_MIME_TYPES
  THEN ERR_UNSUPPORTED
  ELSE ""

\* The checks, fs.readFile, and the call of translateDocumentBuffer.
LocalStart ==
  /\ lpc = "start"
  /\ IF LocalError(lArgs) # ""
     THEN /\ lpc' = "failed" /\ lError' = LocalError(lArgs)
          /\ UNCHANGED <<lReads, docVars>>
     ELSE /\ lReads' = Append(lReads, lArgs.inputPath)
          /\ IF lArgs.inputPath = "falta.pdf"
             THEN /\ lpc' = "failed" /\ lError' = ERR_ENOENT
                  /\ UNCHANGED docVars
             ELSE /\ lpc' = "translating" /\ UNCHANGED lError
                  /\ dArgs' = [projectId |-> lArgs.projectId,
                               targetLanguageCode |-> lArgs.targetLanguageCode,
                               mimeType |-> OrElse(lArgs.mimeType,
                                                   inferMimeType(lArgs.inputPath)),
                               content |-> FileAt(lArgs.inputPath),
                               sourceLanguageCode |-> lArgs.sourceLanguageCode,
                               tuning |-> lArgs.tuning]
                  /\ dpc' = "start"
                  /\ UNCHANGED <<dChunks, dIdx, dOutputs, dDetected, dCalls, dReported,
                                 dLastReply, dSplitCalls, dMerges, dResult, dError>>
  /\ UNCHANGED <<lArgs, lWrites, lResult>>
  /\ UNCHANGED <<splitVars, poolVars, batchVars, textVars, itemVars, convVars,
                 multiVars, respVars>>

\* A variant that writes whatever it holds before it looks at the outcome.
LocalReturnsWritesFirst ==
  /\ lpc = "translating"
  /\ dpc \in {"done", "failed"}
  /\ lWrites' = Append(lWrites, [path |-> <<lArgs.outputPath>>,
                                 data |-> dResult.outputBuffer])
  /\ IF dpc = "failed"
     THEN lpc' = "failed" /\ lError' = dError /\ UNCHANGED lResult
     ELSE /\ lpc' = "done" /\ UNCHANGED lError
          /\ lResult' = [outputPath |-> <<lArgs.outputPath>>,
                         outputMimeType |-> dResult.outputMimeType,
                         detectedLanguageCode |-> dResult.detectedLanguageCode]
  /\ UNCHANGED <<lArgs, lReads>>
  /\ UNCHANGED <<splitVars, docVars, poolVars, batchVars, textVars, itemVars, convVars,
                 multiVars, respVars>>
\* translateDocumentBuffer is over: its error is passed on, or the output
\* is written, which may fail, and the result returned.
LocalReturns ==
  /\ lpc = "translating"
  /\ dpc \in {"done", "failed"}
  /\ IF dpc = "failed"
     THEN /\ lpc' = "failed" /\ lError' = dError
          /\ UNCHANGED <<lWrites, lResult>>
     ELSE LET finalOutputPath ==
                IF lArgs.outputPath # "" THEN <<lArgs.outputPath>>
                ELSE defaultOutputPath(lArgs.inputPath, lArgs.targetLanguageCode,
                                       extForMimeType(dResult.outputMimeType))
          IN /\ lWrites' = Append(lWrites, [path |-> finalOutputPath,
                                            data |-> dResult.outputBuffer])
             /\ \/ /\ lpc' = "done"
                   /\ lResult' = [outputPath |-> finalOutputPath,
                                  outputMimeType |-> dResult.outputMimeType,
                                  detectedLanguageCode |-> dResult.detectedLanguageCode]
                   /\ UNCHANGED lError
                \/ /\ lpc' = "failed" /\ lError' = ERR_WRITE
                   /\ UNCHANGED lResult
  /\ UNCHANGED <<lArgs, lReads>>
  /\ UNCHANGED <<splitVars, docVars, poolVars, batchVars, textVars, itemVars, convVars,
                 multiVars, respVars>>

LocalArgs ==
  [projectId : {"", "my-project"}, inputPath : LocalPaths, outputPath : {"", "out.pdf"},
   mimeType : {"", PDF, TEXT_PLAIN}, targetLanguageCode : {"", "pt"},
   sourceLanguageCode : {"", "en"}, tuning : {NoTuning}]
LocalContents ==
  {EmptyBuffer, OtherBytes, PdfOfPages(1), PdfOfPages(DefaultMaxPagesPerRequest + 1)}

\* translateLocalDocument is called, or translateDocumentBuffer directly.
InitLocal ==
  /\ \/ /\ lArgs \in LocalArgs /\ lpc = "start"
        /\ lReads = <<>> /\ lWrites = <<>> /\ lResult = NoLocalResult /\ lError = ""
        /\ DocIdle
     \/ /\ LocalIdle
        /\ dArgs \in [projectId : {"", "my-project"}, targetLanguageCode : {"", "pt"},
                      mimeType : SUPPORTED_MIME_TYPES \cup {"", TEXT_PLAIN},
                      content : LocalContents, sourceLanguageCode : {""},
                      tuning : {NoTuning}]
        /\ dpc = "start"
        /\ dChunks = <<>> /\ dIdx = 0 /\ dOutputs = <<>> /\ dDetected = ""
        /\ dCalls = <<>> /\ dReported = <<>> /\ dLastReply = NoReply
        /\ dSplitCalls = 0 /\ dMerges = <<>>
        /\ dResult = NoResult /\ dError = ""
  /\ SplitIdle
  /\ ItemIdle
  /\ ConvIdle
  /\ PoolIdle
  /\ BatchIdle
  /\ TextIdle
  /\ MultiIdle
  /\ RespIdle

NextLocal ==
  \/ LocalStart
  \/ LocalReturns
  \/ Validate
  \/ SplitIfNeeded
  \/ IssueSegmentCall
  \/ SegmentReply
  \/ MergeOutputs
  \/ IssueDirectCall
  \/ DirectReply

\* One call of translateLocalDocument, or of translateDocumentBuffer.
SpecLocal == InitLocal /\ [][NextLocal]_vars

\* The translate-doc command: its options as commander parses them (the
\* three tuning options default to false), and the arguments its action
\* calls translateLocalDocument with.
CliPaths == {"in.pdf", "grande.pdf", "in.docx", "in"}
CliOptions ==
  [in : CliPaths, to : {"pt"}, from : {"", "en"}, mime : {"", DOCX}, out : {"", "out.pdf"},
   nativePdfOnly : {"false", "true"}, shadowRemoval : {"false", "true"},
   rotationCorrection : {"false", "true"}]
\* Boolean(value)
JsBoolean(value) == IF value = "true" THEN "true" ELSE "false"
CliArgs(opts) ==
  [projectId |-> "my-project", inputPath |-> opts.in, outputPath |-> opts.out,
   mimeType |-> opts.mime, targetLanguageCode |-> opts.to,
   sourceLanguageCode |-> opts.from,
   tuning |-> [isTranslateNativePdfOnly |-> JsBoolean(opts.nativePdfOnly),
               enableShadowRemovalNativePdf |-> JsBoolean(opts.shadowRemoval),
               enableRotationCorrection |-> JsBoolean(opts.rotationCorrection)]]
InitCli ==
  /\ \E opts \in CliOptions : lArgs = CliArgs(opts)
  /\ lpc = "start"
  /\ lReads = <<>> /\ lWrites = <<>> /\ lResult = NoLocalResult /\ lError = ""
  /\ DocIdle
  /\ SplitIdle
  /\ ItemIdle
  /\ ConvIdle
  /\ PoolIdle
  /\ BatchIdle
  /\ TextIdle
  /\ MultiIdle
  /\ RespIdle
\* One run of the translate-doc command with GCP_PROJECT_ID set.
SpecCli == InitCli /\ [][NextLocal]_vars

\* -------------------------------------------------- the combined-text loop
\* parseSpacingLines and the loop that joins the blocks, on any blocks and
\* any form value.
MaxBlocks == 3
BlockKinds == {Block("a.png", <<"A">>), Block("", <<"x", "CRLF", "y">>)}
BlockLists == UNION {[1..n -> BlockKinds] : n \in 0..MaxBlocks}
Number(n, d) == [kind |-> "number", q |-> <<n, d>>]
FormValues ==
  {AbsentValue, [kind |-> "empty", q |-> <<0, 1>>], [kind |-> "nan", q |-> <<0, 1>>],
   [kind |-> "inf", q |-> <<0, 1>>],
   Number(0 - 1, 1), Number(0, 1), Number(2, 1), Number(5, 2), Number(20, 1),
   Number(21, 1)}

InitCombine ==
  /\ tStage = "input"
  /\ tBlocks \in BlockLists
  /\ tNormalize \in BOOLEAN
  /\ tRaw \in FormValues
  /\ tText = <<>>
  /\ SplitIdle
  /\ ItemIdle
  /\ ConvIdle
  /\ DocIdle
  /\ PoolIdle
  /\ BatchIdle
  /\ LocalIdle
  /\ MultiIdle
  /\ RespIdle

JoinBlocks ==
  /\ tStage = "input"
  /\ tText' = CombineFrom(tBlocks, 1, tNormalize, parseSpacingLines(tRaw))
  /\ tStage' = "joined"
  /\ UNCHANGED <<tBlocks, tNormalize, tRaw>>
  /\ UNCHANGED <<splitVars, docVars, poolVars, batchVars, localVars, itemVars,
                 convVars, multiVars, respVars>>

NextCombine == JoinBlocks

SpecCombine == InitCombine /\ [][NextCombine]_vars

\* Requests that send any form value in either spacing field, with one file
\* or two, with and without combineAllToTxt.
SpacingUploads ==
  {<<[originalname |-> "foto.png", mimetype |-> IMAGE_PNG, buffer |-> OtherBytes]>>,
   <<[originalname |-> "foto.png", mimetype |-> IMAGE_PNG, buffer |-> OtherBytes],
     [originalname |-> "", mimetype |-> "", buffer |-> OtherBytes]>>}
SpacingRequests ==
  [to : {"pt"}, files : SpacingUploads, combineImages : {"absent"},
   combineAllToTxt : FormFlags, mimeType : {""},
   betweenTranslationsLines : FormValues, spacingLines : FormValues]
InitSpacing ==
  /\ bCfg = [projectId |-> "my-project", imageBatchSize |-> 2]
  /\ bReq \in SpacingRequests
  /\ bpc = "start" /\ bSpacing = 0 /\ bIdx = 0 /\ bEntries = <<>> /\ bFinalized = 0
  /\ bProcessed = <<>> /\ bResponses = <<>> /\ bTraces = <<>>
  /\ bOutstanding = {}
  /\ PoolIdle
  /\ SplitIdle
  /\ ItemIdle
  /\ ConvIdle
  /\ DocIdle
  /\ TextIdle
  /\ LocalIdle
  /\ MultiIdle
  /\ RespIdle
SpecSpacing == InitSpacing /\ [][NextBatch]_vars

\* Requests of one or two files, with and without a name, images and others,
\* under every combination of the two combine flags.
NameKinds ==
  {[originalname |-> "foto.png", mimetype |-> IMAGE_PNG, buffer |-> OtherBytes],
   [originalname |-> "", mimetype |-> IMAGE_PNG, buffer |-> OtherBytes],
   [originalname |-> "", mimetype |-> PDF, buffer |-> PdfOfPages(1)]}
NameRequests ==
  [to : {"pt"}, files : [1..1 -> NameKinds] \cup [1..2 -> NameKinds],
   combineImages : FormFlags, combineAllToTxt : FormFlags, mimeType : {""},
   betweenTranslationsLines : SpacingValues, spacingLines : {AbsentValue}]
InitNames ==
  /\ bCfg = [projectId |-> "my-project", imageBatchSize |-> 2]
  /\ bReq \in NameRequests
  /\ bpc = "start" /\ bSpacing = 0 /\ bIdx = 0 /\ bEntries = <<>> /\ bFinalized = 0
  /\ bProcessed = <<>> /\ bResponses = <<>> /\ bTraces = <<>>
  /\ bOutstanding = {}
  /\ PoolIdle
  /\ SplitIdle
  /\ ItemIdle
  /\ ConvIdle
  /\ DocIdle
  /\ TextIdle
  /\ LocalIdle
  /\ MultiIdle
  /\ RespIdle
SpecNames == InitNames /\ [][NextBatch]_vars

\* ------------------------------------------------------------- respondZip
\* respondZip with any builder: one that appends some entries and then
\* returns or throws.
MaxAppends == 2
BuilderEntries ==
  {TextEntry(<<"a", ".txt">>, <<"A">>), BufferEntry(<<"b", ".pdf">>, PdfOfPages(1))}
ERR_BUILDER == "builder failed"

BuilderAppends ==
  /\ bpc = "builder"
  /\ Len(bEntries) < MaxAppends
  /\ \E e \in BuilderEntries : bEntries' = Append(bEntries, e)
  /\ UNCHANGED <<bCfg, bReq, bpc, bSpacing, bIdx, bFinalized, bProcessed, bResponses,
                 bTraces, bOutstanding>>
  /\ UNCHANGED <<splitVars, docVars, poolVars, textVars, localVars, itemVars, convVars,
                 multiVars, respVars>>

FinalizeInTry(thrown) == IF thrown THEN 0 ELSE 1
\* finally { archive.finalize(); }
FinalizeCalls(thrown) == 1

\* `await builder(archive)` is over: after a throw zip_error.txt is appended,
\* unless that append throws too, and in either case the archive is
\* finalized, which ends the response.
ZipEnds(thrown, entries) ==
  /\ bEntries' = entries
  /\ bFinalized' = bFinalized + FinalizeCalls(thrown)
  /\ IF FinalizeCalls(thrown) > 0
     THEN Respond(Response(200, "application/zip", <<"translations.zip">>, <<>>,
                           EmptyBuffer, entries))
     ELSE bpc' = "open" /\ UNCHANGED bResponses
  /\ UNCHANGED <<bCfg, bReq, bSpacing, bIdx, bProcessed, bTraces, bOutstanding>>
  /\ UNCHANGED <<splitVars, docVars, poolVars, textVars, localVars, itemVars, convVars,
                 multiVars, respVars>>

BuilderReturns ==
  /\ bpc = "builder"
  /\ ZipEnds(FALSE, bEntries)

BuilderThrows ==
  /\ bpc = "builder"
  /\ \E appendThrows \in BOOLEAN :
       ZipEnds(TRUE, IF appendThrows THEN bEntries
                     ELSE Append(bEntries,
                                 TextEntry(<<"zip_error", ".txt">>, <<ERR_BUILDER, "LF">>)))

InitZip ==
  /\ \/ /\ bCfg = [projectId |-> "", imageBatchSize |-> 0]
        /\ bReq = NoRequest
        /\ bpc = "builder"
     \/ /\ bCfg \in BatchConfigs
        /\ bReq \in BatchRequests
        /\ bCfg.projectId # "" /\ bReq.to # "" /\ Len(bReq.files) > 1
        /\ ~isTruthy(bReq.combineAllToTxt)
        /\ ~(isTruthy(bReq.combineImages) /\ AllImages(bReq.files))
        /\ bpc = "start"
  /\ bSpacing = 0 /\ bIdx = 0 /\ bEntries = <<>> /\ bFinalized = 0
  /\ bProcessed = <<>> /\ bResponses = <<>> /\ bTraces = <<>>
  /\ bOutstanding = {}
  /\ PoolIdle
  /\ SplitIdle
  /\ ItemIdle
  /\ ConvIdle
  /\ DocIdle
  /\ TextIdle
  /\ LocalIdle
  /\ MultiIdle
  /\ RespIdle

NextZip ==
  \/ BuilderAppends
  \/ BuilderReturns
  \/ BuilderThrows
  \/ HandlerStart
  \/ ArchiveItemStart
  \/ ArchiveItemEnd
  \/ ArchiveFinalize

\* respondZip, with any builder and with the handler's.
SpecZip == InitZip /\ [][NextZip]_vars

\* ----------------------------------- one uploaded file, statement by statement
\* The processing of one file on each of the four paths of the handler,
\* with every call it makes: ocrImageToText's two Vision calls,
\* translatePlainText's call of translateText, and translateDocumentBuffer.
ItemProjectId == "my-project"
\* req.body.from || undefined: the requests here carry no `from`.
ItemSource == ""
ItemTarget == "pt"
Whitespace == {" ", "LF", "CRLF"}
\* !text.trim(): nothing but whitespace.
trimIsEmpty(text) == \A k \in 1..Len(text) : text[k] \in Whitespace

VisionCall(api, content) == [api |-> api, content |-> content, text |-> <<>>]
TextCall(text) == [api |-> "translateText", content |-> EmptyBuffer, text |-> text]
\* What a call answers: it rejects, or resolves without the field read
\* (fullTextAnnotation, textAnnotations[0], translations[0]), or with its text.
ApiReply(kind, text) == [kind |-> kind, text |-> text]
OcrTexts == {<<>>, <<" ">>, <<"hello">>}
VisionReplies ==
  {ApiReply("throws", <<>>), ApiReply("absent", <<>>)}
    \cup {ApiReply("ok", t) : t \in OcrTexts}
TextReplies ==
  {ApiReply("throws", <<>>), ApiReply("absent", <<>>), ApiReply("ok", <<>>)}
    \cup {ApiReply("ok", t) : t \in TranslatedTexts}

UsableFullTextUntrimmed(reply) == reply.kind = "ok" /\ reply.text # <<>>
\* if (fullText && fullText.trim()) return fullText;
UsableFullText(reply) ==
  reply.kind = "ok" /\ reply.text # <<>> /\ ~trimIsEmpty(reply.text)
\* if (annotations[0] && annotations[0].description) return it; return '';
FallbackText(reply) ==
  IF reply.kind = "ok" /\ reply.text # <<>> THEN reply.text ELSE <<>>

\* The processing is over: what the path does with how it went.
ItemEnds(t) ==
  /\ ipc' = "done"
  /\ iTrace' = t
  /\ iResponses' = IF iMode = "single"
                   THEN Append(iResponses, SingleResponse(iFile, t, ItemTarget))
                   ELSE iResponses
  /\ iEntries' = IF iMode = "archive"
                 THEN Append(iEntries, ArchiveEntry(iFile, t, ItemTarget))
                 ELSE iEntries
  /\ iBlocks' = IF iMode = "combineAll"
                THEN Append(iBlocks, CombineAllBlock(iFile, t).value)
                ELSE IF iMode = "combineImages"
                THEN Append(iBlocks, CombineImagesBlock(iFile, t).value)
                ELSE iBlocks
ItemGoesOn(pc) ==
  /\ ipc' = pc
  /\ UNCHANGED <<iTrace, iResponses, iEntries, iBlocks>>

\* From the computation of effectiveMimeType to the first await: the first
\* Vision call for an image, the answer for a file without MIME type, or
\* the call of translateDocumentBuffer.  The combineImages path runs on
\* images only and makes no test.
ItemStart ==
  /\ ipc = "start"
  /\ LET effectiveMimeType == EffectiveMimeType(iFile)
         mimeType == OrElse(effectiveMimeType, iBodyMime)
     IN IF iMode = "combineImages" \/ isImageMime(effectiveMimeType)
        THEN /\ iCalls' = Append(iCalls, VisionCall("documentTextDetection", iFile.buffer))
             /\ ItemGoesOn("ocr_document")
             /\ UNCHANGED docVars
        ELSE IF mimeType = ""
        THEN /\ ItemEnds(Trace("no_mime", "", <<>>, EmptyBuffer))
             /\ UNCHANGED <<iCalls, docVars>>
        ELSE /\ dArgs' = [projectId |-> ItemProjectId, targetLanguageCode |-> ItemTarget,
                          sourceLanguageCode |-> ItemSource,
                          mimeType |-> mimeType, content |-> iFile.buffer,
                          tuning |-> NoTuning]
             /\ dpc' = "start"
             /\ ItemGoesOn("document")
             /\ UNCHANGED <<iCalls, dChunks, dIdx, dOutputs, dDetected, dCalls, dReported,
                            dLastReply, dSplitCalls, dMerges, dResult, dError>>
  /\ UNCHANGED <<iMode, iFile, iBodyMime, iReplies>>
  /\ UNCHANGED <<splitVars, poolVars, batchVars, textVars, localVars, convVars,
                 multiVars, respVars>>

\* documentTextDetection settles: its text is returned and handed to
\* translateText, or textDetection is called.
OcrDocumentReply ==
  /\ ipc = "ocr_document"
  /\ \E reply \in VisionReplies :
       /\ iReplies' = Append(iReplies, reply)
       /\ IF reply.kind = "throws"
          THEN ItemEnds(Trace("throws", ERR_OCR, <<>>, EmptyBuffer)) /\ UNCHANGED iCalls
          ELSE IF UsableFullText(reply)
          THEN /\ iCalls' = Append(iCalls, TextCall(reply.text))
               /\ ItemGoesOn("translate_text")
          ELSE /\ iCalls' = Append(iCalls, VisionCall("textDetection", iFile.buffer))
               /\ ItemGoesOn("ocr_fallback")
  /\ UNCHANGED <<iMode, iFile, iBodyMime>>
  /\ UNCHANGED <<splitVars, docVars, poolVars, batchVars, textVars, localVars,
                 convVars, multiVars, respVars>>

\* textDetection settles: ocrImageToText returns, and the caller tests
\* !ocrText.trim() before it calls translatePlainText.
OcrFallbackReply ==
  /\ ipc = "ocr_fallback"
  /\ \E reply \in VisionReplies :
       /\ iReplies' = Append(iReplies, reply)
       /\ IF reply.kind = "throws"
          THEN ItemEnds(Trace("throws", ERR_OCR, <<>>, EmptyBuffer)) /\ UNCHANGED iCalls
          ELSE IF trimIsEmpty(FallbackText(reply))
          THEN ItemEnds(Trace("no_text", "", <<>>, EmptyBuffer)) /\ UNCHANGED iCalls
          ELSE /\ iCalls' = Append(iCalls, TextCall(FallbackText(reply)))
               /\ ItemGoesOn("translate_text")
  /\ UNCHANGED <<iMode, iFile, iBodyMime>>
  /\ UNCHANGED <<splitVars, docVars, poolVars, batchVars, textVars, localVars,
                 convVars, multiVars, respVars>>

\* translateText settles: translatedText is translations[0].translatedText
\* or ''.
TranslateTextReply ==
  /\ ipc = "translate_text"
  /\ \E reply \in TextReplies :
       /\ iReplies' = Append(iReplies, reply)
       /\ IF reply.kind = "throws"
          THEN ItemEnds(Trace("throws", ERR_TRANSLATE_TEXT, <<>>, EmptyBuffer))
          ELSE ItemEnds(Trace("image_ok", "", reply.text, EmptyBuffer))
  /\ UNCHANGED <<iMode, iFile, iBodyMime, iCalls>>
  /\ UNCHANGED <<splitVars, docVars, poolVars, batchVars, textVars, localVars,
                 convVars, multiVars, respVars>>

\* translateDocumentBuffer is over: its error is caught, or its output is
\* used, after text extraction on the combineAllToTxt path.
ItemDocumentReturns ==
  /\ ipc = "document"
  /\ dpc \in {"done", "failed"}
  /\ IF dpc = "failed"
     THEN ItemEnds(Trace("throws", dError, <<>>, EmptyBuffer))
     ELSE IF iMode = "combineAll"
     THEN ItemGoesOn("extract")
     ELSE ItemEnds(Trace("doc_ok", "", <<>>, dResult.outputBuffer))
  /\ UNCHANGED <<iMode, iFile, iBodyMime, iCalls, iReplies>>
  /\ UNCHANGED <<splitVars, docVars, poolVars, batchVars, textVars, localVars,
                 convVars, multiVars, respVars>>

\* extractTextFromTranslatedDocument settles.
ItemExtractReturns ==
  /\ ipc = "extract"
  /\ \/ ItemEnds(Trace("throws", ERR_EXTRACT, <<>>, dResult.outputBuffer))
     \/ \E t \in ExtractedTexts : ItemEnds(Trace("doc_ok", "", t, dResult.outputBuffer))
  /\ UNCHANGED <<iMode, iFile, iBodyMime, iCalls, iReplies>>
  /\ UNCHANGED <<splitVars, docVars, poolVars, batchVars, textVars, localVars,
                 convVars, multiVars, respVars>>

\* Uploads of every combination of name, declared MIME type and content.
ItemFiles ==
  [originalname : {"foto.png", "doc.pdf", ""},
   mimetype : {"", OCTET_STREAM, IMAGE_PNG, PDF, TEXT_PLAIN},
   buffer : {EmptyBuffer, OtherBytes, PdfOfPages(1),
             PdfOfPages(DefaultMaxPagesPerRequest + 1)}]
ItemModes == {"single", "archive", "combineAll", "combineImages"}

InitItem ==
  /\ iMode \in ItemModes
  /\ iFile \in ItemFiles
  /\ iMode = "combineImages" => AllImages(<<iFile>>)
  /\ iBodyMime \in {"", PDF}
  /\ ipc = "start"
  /\ iCalls = <<>> /\ iReplies = <<>> /\ iTrace = NoTrace
  /\ iResponses = <<>> /\ iEntries = <<>> /\ iBlocks = <<>>
  /\ SplitIdle
  /\ DocIdle
  /\ PoolIdle
  /\ BatchIdle
  /\ TextIdle
  /\ LocalIdle
  /\ ConvIdle
  /\ MultiIdle
  /\ RespIdle

NextItem ==
  \/ ItemStart
  \/ OcrDocumentReply
  \/ OcrFallbackReply
  \/ TranslateTextReply
  \/ ItemDocumentReturns
  \/ ItemExtractReturns
  \/ Validate
  \/ SplitIfNeeded
  \/ IssueSegmentCall
  \/ SegmentReply
  \/ MergeOutputs
  \/ IssueDirectCall
  \/ DirectReply

\* The processing of one uploaded file.
SpecItem == InitItem /\ [][NextItem]_vars

\* ------------------------------------------------------ translateLocalImage
ERR_NO_TEXT == "OCR nao encontrou texto na imagem."
\* The images on disk: "foto.png" exists, "falta.pdf" does not.
ImagePaths == {"", "foto.png", "falta.pdf"}
\* What fs.writeFile is handed with { encoding: 'utf8' }.
Utf8Text(text) == [kind |-> "utf8", pages |-> <<>>, text |-> text]
imageDefaultOutputPath(inputPath, targetLanguageCode) ==
  <<localBasename(inputPath), "_", targetLanguageCode, "_translations", ".txt">>
\* The checks before the file is read: the message thrown, "" if none.
LocalImageError(a) ==
  IF a.inputPath = "" THEN ERR_INPUT_PATH
  ELSE IF a.projectId = "" THEN ERR_PROJECT
  ELSE IF a.targetLanguageCode = "" THEN ERR_TARGET
  ELSE ""

\* The checks, fs.readFile, and ocrImageToText up to its first Vision call.
LocalImageStart ==
  /\ lpc = "image_start"
  /\ IF LocalImageError(lArgs) # ""
     THEN /\ lpc' = "failed" /\ lError' = LocalImageError(lArgs)
          /\ UNCHANGED <<lReads, itemVars>>
     ELSE /\ lReads' = Append(lReads, lArgs.inputPath)
          /\ IF lArgs.inputPath = "falta.pdf"
             THEN /\ lpc' = "failed" /\ lError' = ERR_ENOENT
                  /\ UNCHANGED itemVars
             ELSE /\ lpc' = "image" /\ UNCHANGED lError
                  /\ iMode' = "local"
                  /\ iFile' = [originalname |-> lArgs.inputPath, mimetype |-> "",
                               buffer |-> FileAt(lArgs.inputPath)]
                  /\ iCalls' = Append(iCalls, VisionCall("documentTextDetection",
                                                         FileAt(lArgs.inputPath)))
                  /\ ipc' = "ocr_document"
                  /\ UNCHANGED <<iBodyMime, iReplies, iTrace, iResponses, iEntries,
                                 iBlocks>>
  /\ UNCHANGED <<lArgs, lWrites, lResult>>
  /\ UNCHANGED <<splitVars, docVars, poolVars, batchVars, textVars, convVars,
                 multiVars, respVars>>

\* ocrImageToText and translatePlainText are over: an error is passed on,
\* an image without text is one, or the text is written, which may fail,
\* and the result returned.
LocalImageReturns ==
  /\ lpc = "image"
  /\ ipc = "done"
  /\ IF iTrace.end = "throws"
     THEN /\ lpc' = "failed" /\ lError' = iTrace.error
          /\ UNCHANGED <<lWrites, lResult>>
     ELSE IF iTrace.end = "no_text"
     THEN /\ lpc' = "failed" /\ lError' = ERR_NO_TEXT
          /\ UNCHANGED <<lWrites, lResult>>
     ELSE LET finalOutputPath ==
                IF lArgs.outputPath # "" THEN <<lArgs.outputPath>>
                ELSE imageDefaultOutputPath(lArgs.inputPath, lArgs.targetLanguageCode)
          IN /\ lWrites' = Append(lWrites, [path |-> finalOutputPath,
                                            data |-> Utf8Text(iTrace.text)])
             /\ \/ /\ lpc' = "done"
                   /\ lResult' = [outputPath |-> finalOutputPath,
                                  outputMimeType |-> "",
                                  detectedLanguageCode |-> ""]
                   /\ UNCHANGED lError
                \/ /\ lpc' = "failed" /\ lError' = ERR_WRITE
                   /\ UNCHANGED lResult
  /\ UNCHANGED <<lArgs, lReads>>
  /\ UNCHANGED <<splitVars, docVars, poolVars, batchVars, textVars, itemVars, convVars,
                 multiVars, respVars>>

ImageArgs ==
  [projectId : {"", "my-project"}, inputPath : ImagePaths, outputPath : {"", "out.txt"},
   mimeType : {""}, targetLanguageCode : {"", "pt"}, sourceLanguageCode : {"", "en"},
   tuning : {NoTuning}]

\* translateLocalDocument is called, or translateLocalImage.
InitLocalFiles ==
  /\ \/ lArgs \in LocalArgs /\ lpc = "start"
     \/ lArgs \in ImageArgs /\ lpc = "image_start"
  /\ lReads = <<>> /\ lWrites = <<>> /\ lResult = NoLocalResult /\ lError = ""
  /\ DocIdle
  /\ SplitIdle
  /\ ItemIdle
  /\ ConvIdle
  /\ PoolIdle
  /\ BatchIdle
  /\ TextIdle
  /\ MultiIdle
  /\ RespIdle

NextLocalFiles ==
  \/ NextLocal
  \/ LocalImageStart
  \/ OcrDocumentReply
  \/ OcrFallbackReply
  \/ TranslateTextReply
  \/ LocalImageReturns

\* One call of translateLocalDocument or of translateLocalImage.
SpecLocalFiles == InitLocalFiles /\ [][NextLocalFiles]_vars

\* ------------------------------------------------- translatePdfToDocxBuffer
ERR_BUCKET == "GCS_TRANSLATION_BUCKET obrigatorio para PDF->DOCX"
ERR_SAVE == "storage: save rejected"
ERR_BATCH == "batchTranslateDocument rejected"
ERR_OPERATION == "batch operation failed"
ERR_LIST == "storage: getFiles rejected"
ERR_NO_DOCX == "BatchTranslateDocument concluiu, mas nao foi encontrado arquivo .docx"
ERR_DOWNLOAD == "storage: download rejected"
ERR_DELETE == "storage: delete rejected"
\* The bucket as configured: nothing, a URI without a name, a URI, a name.
BucketSettings == {"", "gs://", "gs://datatranslated/saida", "datatranslated"}
\* trim, drop a leading gs://, drop leading slashes, keep what precedes the
\* first slash.
normalizeBucketName(bucketOrUri) ==
  CASE bucketOrUri = "gs://datatranslated/saida" -> "datatranslated"
    [] bucketOrUri = "datatranslated" -> "datatranslated"
    [] OTHER -> ""
\* The object the input is staged as, and what a job may leave under the
\* output prefix.
InputObject == "doctranslator/input/job/input.pdf"
OutputObjects == <<"doctranslator/output/job/input_pt_translations.docx",
                   "doctranslator/output/job/index.csv">>
\* f.name.toLowerCase().endsWith('.docx')
IsDocx(object) == object = OutputObjects[1]
DocxOf(content) == [kind |-> "docx", pages |-> TranslatePages(content).pages]
\* An operation attempted: in the try block or in finally, on which object,
\* and whether it succeeded.
Op(phase, op, object, ok) == [phase |-> phase, op |-> op, object |-> object, ok |-> ok]
Return(buffer) == [kind |-> "return", error |-> "", buffer |-> buffer]
Throw(error) == [kind |-> "throw", error |-> error, buffer |-> EmptyBuffer]
\* The objects of a set, in the order the bucket lists them.
RECURSIVE ListedFrom(_, _)
ListedFrom(objects, i) ==
  IF i > Len(OutputObjects) THEN <<>>
  ELSE (IF OutputObjects[i] \in objects THEN <<OutputObjects[i]>> ELSE <<>>)
         \o ListedFrom(objects, i + 1)
getFiles(objects) == ListedFrom(objects, 1)

ConvValidationErrorBucketUnchecked(a) ==
  IF a.projectId = "" THEN ERR_PROJECT
  ELSE IF a.targetLanguageCode = "" THEN ERR_TARGET
  ELSE IF a.content.kind = "empty" THEN ERR_CONTENT
  ELSE ""
ConvValidationError(a) ==
  IF a.projectId = "" THEN ERR_PROJECT
  ELSE IF a.targetLanguageCode = "" THEN ERR_TARGET
  ELSE IF normalizeBucketName(a.gcsBucket) = "" THEN ERR_BUCKET
  ELSE IF a.content.kind = "empty" THEN ERR_CONTENT
  ELSE ""

\* The four checks at the head.
ConvValidate ==
  /\ cpc = "start"
  /\ IF ConvValidationError(cArgs) # ""
     THEN cpc' = "failed" /\ cError' = ConvValidationError(cArgs)
     ELSE cpc' = "save" /\ UNCHANGED cError
  /\ UNCHANGED <<cArgs, cOps, cObjects, cListed, cPending, cResult>>
  /\ UNCHANGED <<splitVars, docVars, poolVars, batchVars, textVars, localVars,
                 itemVars, multiVars, respVars>>

\* await bucket.file(inputObject).save(content, ...), before the try block.
ConvSaveInput ==
  /\ cpc = "save"
  /\ \E ok \in BOOLEAN :
       /\ cOps' = Append(cOps, Op("before", "save", InputObject, ok))
       /\ IF ok
          THEN cObjects' = cObjects \cup {InputObject} /\ cpc' = "job" /\ UNCHANGED cError
          ELSE cpc' = "failed" /\ cError' = ERR_SAVE /\ UNCHANGED cObjects
  /\ UNCHANGED <<cArgs, cListed, cPending, cResult>>
  /\ UNCHANGED <<splitVars, docVars, poolVars, batchVars, textVars, localVars,
                 itemVars, multiVars, respVars>>

CleanupOnReturnOnly(outcome) == IF outcome.kind = "return" THEN "cleanup_input" ELSE "end"
\* try { ... } finally { ... }: finally runs however the try block ended.
AfterTry(outcome) == "cleanup_input"
\* The try block ends, by return or by throw.
TryEnds(outcome) ==
  /\ cPending' = outcome
  /\ cpc' = AfterTry(outcome)
TryGoesOn(pc) ==
  /\ cpc' = pc
  /\ UNCHANGED cPending

\* const [operation] = await client.batchTranslateDocument(request)
ConvStartJob ==
  /\ cpc = "job"
  /\ \E ok \in BOOLEAN :
       /\ cOps' = Append(cOps, Op("try", "batchTranslateDocument", InputObject, ok))
       /\ IF ok THEN TryGoesOn("operation") ELSE TryEnds(Throw(ERR_BATCH))
  /\ UNCHANGED <<cArgs, cObjects, cListed, cResult, cError>>
  /\ UNCHANGED <<splitVars, docVars, poolVars, batchVars, textVars, localVars,
                 itemVars, multiVars, respVars>>

\* await operation.promise(): the job is over, and has written some objects
\* under the output prefix, a .docx among them or not.
ConvOperation ==
  /\ cpc = "operation"
  /\ \E ok \in BOOLEAN, written \in SUBSET {OutputObjects[i] : i \in 1..Len(OutputObjects)} :
       /\ cOps' = Append(cOps, Op("try", "operation.promise", InputObject, ok))
       /\ cObjects' = cObjects \cup written
       /\ IF ok THEN TryGoesOn("list") ELSE TryEnds(Throw(ERR_OPERATION))
  /\ UNCHANGED <<cArgs, cListed, cResult, cError>>
  /\ UNCHANGED <<splitVars, docVars, poolVars, batchVars, textVars, localVars,
                 itemVars, multiVars, respVars>>

\* const [files] = await bucket.getFiles({ prefix: outputPrefix }); files.find(...)
ConvListOutputs ==
  /\ cpc = "list"
  /\ \E ok \in BOOLEAN :
       /\ cOps' = Append(cOps, Op("try", "getFiles", "", ok))
       /\ IF ~ok THEN TryEnds(Throw(ERR_LIST))
          ELSE IF \E i \in 1..Len(getFiles(cObjects)) : IsDocx(getFiles(cObjects)[i])
          THEN TryGoesOn("download")
          ELSE TryEnds(Throw(ERR_NO_DOCX))
  /\ UNCHANGED <<cArgs, cObjects, cListed, cResult, cError>>
  /\ UNCHANGED <<splitVars, docVars, poolVars, batchVars, textVars, localVars,
                 itemVars, multiVars, respVars>>

\* const [downloaded] = await docx.download(); return {...}
ConvDownload ==
  /\ cpc = "download"
  /\ \E ok \in BOOLEAN :
       /\ cOps' = Append(cOps, Op("try", "download", OutputObjects[1], ok))
       /\ IF ok THEN TryEnds(Return(DocxOf(cArgs.content)))
          ELSE TryEnds(Throw(ERR_DOWNLOAD))
  /\ UNCHANGED <<cArgs, cObjects, cListed, cResult, cError>>
  /\ UNCHANGED <<splitVars, docVars, poolVars, batchVars, textVars, localVars,
                 itemVars, multiVars, respVars>>

Propagated(pending, error) == Throw(error)
\* catch (_e) { /* ignore */ }: what the try block ended with stands.
Swallowed(pending, error) == pending

\* finally: try { await bucket.file(inputObject).delete(); } catch (_e) {}
ConvCleanupInput ==
  /\ cpc = "cleanup_input"
  /\ \E ok \in BOOLEAN :
       /\ cOps' = Append(cOps, Op("finally", "delete", InputObject, ok))
       /\ cObjects' = IF ok THEN cObjects \ {InputObject} ELSE cObjects
       /\ cPending' = IF ok THEN cPending ELSE Swallowed(cPending, ERR_DELETE)
  /\ cpc' = "cleanup_list"
  /\ UNCHANGED <<cArgs, cListed, cResult, cError>>
  /\ UNCHANGED <<splitVars, docVars, poolVars, batchVars, textVars, localVars,
                 itemVars, multiVars, respVars>>

\* finally: const [outFiles] = await bucket.getFiles({ prefix: outputPrefix })
ConvCleanupList ==
  /\ cpc = "cleanup_list"
  /\ \E ok \in BOOLEAN :
       /\ cOps' = Append(cOps, Op("finally", "getFiles", "", ok))
       /\ IF ok
          THEN /\ cListed' = getFiles(cObjects)
               /\ cpc' = "cleanup_delete"
               /\ UNCHANGED cPending
          ELSE /\ cPending' = Swallowed(cPending, ERR_LIST)
               /\ cpc' = "end"
               /\ UNCHANGED cListed
  /\ UNCHANGED <<cArgs, cObjects, cResult, cError>>
  /\ UNCHANGED <<splitVars, docVars, poolVars, batchVars, textVars, localVars,
                 itemVars, multiVars, respVars>>

\* finally: await Promise.all(outFiles.map((f) => f.delete().catch(() => null)))
ConvCleanupDelete ==
  /\ cpc = "cleanup_delete"
  /\ \E deleted \in SUBSET {cListed[i] : i \in 1..Len(cListed)} :
       /\ cOps' = cOps \o [i \in 1..Len(cListed) |->
                            Op("finally", "delete", cListed[i], cListed[i] \in deleted)]
       /\ cObjects' = cObjects \ deleted
       /\ cPending' = IF deleted = {cListed[i] : i \in 1..Len(cListed)} THEN cPending
                      ELSE Swallowed(cPending, ERR_DELETE)
  /\ cpc' = "end"
  /\ UNCHANGED <<cArgs, cListed, cResult, cError>>
  /\ UNCHANGED <<splitVars, docVars, poolVars, batchVars, textVars, localVars,
                 itemVars, multiVars, respVars>>

\* finally is over: the function returns or throws as the try block did.
ConvEnds ==
  /\ cpc = "end"
  /\ IF cPending.kind = "return"
     THEN /\ cResult' = [outputBuffer |-> cPending.buffer, outputMimeType |-> DOCX,
                         detectedLanguageCode |-> ""]
          /\ cpc' = "done"
          /\ UNCHANGED cError
     ELSE /\ cError' = cPending.error
          /\ cpc' = "failed"
          /\ UNCHANGED cResult
  /\ UNCHANGED <<cArgs, cOps, cObjects, cListed, cPending>>
  /\ UNCHANGED <<splitVars, docVars, poolVars, batchVars, textVars, localVars,
                 itemVars, multiVars, respVars>>

ConvArgs ==
  [projectId : {"", "my-project"}, targetLanguageCode : {"", "pt"},
   gcsBucket : BucketSettings, content : {EmptyBuffer, OtherBytes, PdfOfPages(1)}]

InitConv ==
  /\ cArgs \in ConvArgs
  /\ cpc = "start" /\ cOps = <<>> /\ cObjects = {}
  /\ cListed = <<>> /\ cPending = NoOutcome /\ cResult = NoResult /\ cError = ""
  /\ SplitIdle
  /\ ItemIdle
  /\ DocIdle
  /\ PoolIdle
  /\ BatchIdle
  /\ TextIdle
  /\ LocalIdle
  /\ MultiIdle
  /\ RespIdle

NextConv ==
  \/ ConvValidate
  \/ ConvSaveInput
  \/ ConvStartJob
  \/ ConvOperation
  \/ ConvListOutputs
  \/ ConvDownload
  \/ ConvCleanupInput
  \/ ConvCleanupList
  \/ ConvCleanupDelete
  \/ ConvEnds

\* One call of translatePdfToDocxBuffer.
SpecConv == InitConv /\ [][NextConv]_vars

\* ------------------- translatePdfWithSplittingIfNeeded, several calls at once
\* Two calls under way at once, as two units of work of one batch or two
\* requests are: each is at an await of its own, and the event loop resumes
\* them in any order.  The two documents share no page: the pages of the
\* second are numbered from 100.
Invocations == {1, 2}
MultiContent(d, n) == Pdf([i \in 1..n |-> Page(100 * (d - 1) + (i - 1))])
MultiArgs(d, n) ==
  [projectId |-> "my-project", targetLanguageCode |-> (IF d = 1 THEN "pt" ELSE "es"),
   sourceLanguageCode |-> "", mimeType |-> PDF, content |-> MultiContent(d, n),
   tuning |-> NoTuning]
\* A call at its entry.  got: what the replies to this call's requests
\* carried, in order; amid: a request of this call was issued while a
\* request of another call was in flight.
NewCall(a) ==
  [args |-> a, pc |-> "split", chunks |-> <<>>, idx |-> 0, outputs |-> <<>>,
   detected |-> "", calls |-> <<>>, got |-> <<>>, amid |-> FALSE,
   result |-> NoResult, error |-> ""]
LocalsShared(d) == 1
\* `const outputs = []` and `let detectedLanguageCode = ''` are declared in the
\* function body: call d reads and writes its own.
LocalsOf(d) == d

\* splitPdfIntoChunks and the test of the page count; the locals are set up.
MultiSplit(d) ==
  /\ mDoc[d].pc = "split"
  /\ LET r == splitPdfIntoChunks(mDoc[d].args.content, <<DefaultMaxPagesPerRequest, 1>>)
     IN mDoc' =
          IF ~r.ok
          THEN [mDoc EXCEPT ![d].pc = "failed", ![d].error = ERR_PARSE]
          ELSE IF NeedsNoSplit(r.totalPages, DefaultMaxPagesPerRequest)
          THEN [mDoc EXCEPT ![d].pc = "null"]
          ELSE [mDoc EXCEPT ![d].chunks = r.chunks, ![d].idx = 1, ![d].pc = "seg_call",
                            ![LocalsOf(d)].outputs = <<>>,
                            ![LocalsOf(d)].detected = ""]
  /\ UNCHANGED <<splitVars, docVars, poolVars, batchVars, textVars, localVars, itemVars,
                 convVars, respVars>>

\* The loop body up to `await client.translateDocument(request)`.
MultiIssue(d) ==
  /\ mDoc[d].pc = "seg_call"
  /\ mDoc' = [mDoc EXCEPT
                ![d].calls = Append(@, SegmentRequest(mDoc[d].args, mDoc[d].chunks[mDoc[d].idx])),
                ![d].amid = @ \/ (\E e \in Invocations \ {d} : mDoc[e].pc = "seg_wait"),
                ![d].pc = "seg_wait"]
  /\ UNCHANGED <<splitVars, docVars, poolVars, batchVars, textVars, localVars, itemVars,
                 convVars, respVars>>

\* The rest of the loop body, when the awaited call settles.
MultiReply(d) ==
  /\ mDoc[d].pc = "seg_wait"
  /\ \E reply \in Replies(mDoc[d].calls[Len(mDoc[d].calls)]) :
       mDoc' =
         IF reply.kind = "throws"
         THEN [mDoc EXCEPT ![d].pc = "failed", ![d].error = ERR_SERVICE]
         ELSE IF NoByteStreamOutputs(reply)
         THEN [mDoc EXCEPT ![d].pc = "failed", ![d].error = ERR_EMPTY_OUTPUTS]
         ELSE [mDoc EXCEPT
                 ![d].got = Append(@, [data |-> normalizeBytesToBuffer(reply.stream),
                                       lang |-> reply.lang]),
                 ![LocalsOf(d)].detected = KeepFirst(@, reply.lang),
                 ![LocalsOf(d)].outputs = Append(@, normalizeBytesToBuffer(reply.stream)),
                 ![d].pc = NextAfterSegment(mDoc[d].idx, Len(mDoc[d].chunks)),
                 ![d].idx = @ + 1]
  /\ UNCHANGED <<splitVars, docVars, poolVars, batchVars, textVars, localVars, itemVars,
                 convVars, respVars>>

\* const merged = await mergePdfs(outputs); return {...}
MultiMerge(d) ==
  /\ mDoc[d].pc = "merge"
  /\ LET m == mergePdfs(mDoc[LocalsOf(d)].outputs)
     IN mDoc' =
          IF ~m.ok
          THEN [mDoc EXCEPT ![d].pc = "failed", ![d].error = ERR_PARSE]
          ELSE [mDoc EXCEPT
                  ![d].result = [outputBuffer |-> m.buffer, outputMimeType |-> PDF,
                                 detectedLanguageCode |-> mDoc[LocalsOf(d)].detected],
                  ![d].pc = "done"]
  /\ UNCHANGED <<splitVars, docVars, poolVars, batchVars, textVars, localVars, itemVars,
                 convVars, respVars>>

MultiSizes == {1, DefaultMaxPagesPerRequest + 1}
InitMulti ==
  /\ \E n \in [Invocations -> MultiSizes] :
       mDoc = [d \in Invocations |-> NewCall(MultiArgs(d, n[d]))]
  /\ SplitIdle
  /\ DocIdle
  /\ PoolIdle
  /\ BatchIdle
  /\ TextIdle
  /\ LocalIdle
  /\ ItemIdle
  /\ ConvIdle
  /\ RespIdle

NextMulti ==
  \/ \E d \in Invocations : MultiSplit(d)
  \/ \E d \in Invocations : MultiIssue(d)
  \/ \E d \in Invocations : MultiReply(d)
  \/ \E d \in Invocations : MultiMerge(d)

\* Two calls of translatePdfWithSplittingIfNeeded, interleaved at their awaits.
SpecMulti == InitMulti /\ [][NextMulti]_vars

\* ===================================================================
\* Properties
\* ===================================================================
CeilDiv(a, b) == (a + b - 1) \div b
\* The pages [from, to) of a document that was read from its source, in order.
PageRange(from, to) == [i \in 1..(to - from) |-> Page(from + (i - 1))]
Translated(pages) == [i \in 1..Len(pages) |-> [pages[i] EXCEPT !.tr = TRUE]]
\* The pages of the buffers 1..k of a list, one buffer after the other.
RECURSIVE PagesOfFirst(_, _)
PagesOfFirst(buffers, k) ==
  IF k = 0 THEN <<>> ELSE PagesOfFirst(buffers, k - 1) \o buffers[k].pages

\* The call is for a pdf whose page count exceeds maxPagesPerRequest.
Oversized ==
  /\ dArgs.mimeType = PDF
  /\ dArgs.content.kind = "pdf"
  /\ getPageCount(dArgs.content) > DefaultMaxPagesPerRequest
DocPages == getPageCount(dArgs.content)
\* The pages segment k (from 1) of the document must hold.
SegmentPages(k) ==
  PageRange((k - 1) * DefaultMaxPagesPerRequest,
            Min(DocPages, k * DefaultMaxPagesPerRequest))

\* C3: for an oversized pdf the translate calls are the segments in ascending
\* order, one call per segment; a call is issued only when every earlier call
\* has returned; and a successful run has made exactly ceil(P/S) calls.
C3_SequentialAscendingSegmentCalls ==
  (dpc # "start" /\ ValidationError(dArgs) = "" /\ Oversized) =>
    /\ \A i \in 1..Len(dCalls) :
         dCalls[i] = [parent |-> RequestParent(dArgs),
                      targetLanguageCode |-> dArgs.targetLanguageCode,
                      sourceLanguageCode |-> "undefined",
                      content |-> Pdf(SegmentPages(i)), mimeType |-> PDF, segment |-> TRUE,
                      tuning |-> NoTuning]
    /\ Len(dCalls) <= CeilDiv(DocPages, DefaultMaxPagesPerRequest)
    /\ Len(dCalls) - Len(dReported) \in {0, 1}
    /\ (dpc = "seg_wait") = (Len(dCalls) = Len(dReported) + 1)
    /\ (dpc = "done" => Len(dCalls) = CeilDiv(DocPages, DefaultMaxPagesPerRequest))
C3_Witness ==
  /\ Oversized /\ dpc = "done" /\ DocPages = 41 /\ Len(dCalls) = 3

PagePreserving ==
  \A k \in 1..Len(dOutputs) : dOutputs[k] = Pdf(Translated(dChunks[k].pages))
C5_MergedInSegmentOrder ==
  (Oversized /\ dpc = "done") =>
    /\ dResult.outputBuffer = Pdf(PagesOfFirst(dOutputs, Len(dOutputs)))
    /\ dResult.outputMimeType = PDF
    /\ (PagePreserving =>
          dResult.outputBuffer.pages = Translated(PageRange(0, DocPages)))
    /\ (DocPages = 45 =>
          [k \in 1..Len(dChunks) |-> getPageCount(dChunks[k])] = <<20, 20, 5>>)
C5_Witness ==
  /\ Oversized /\ dpc = "done" /\ DocPages = 45 /\ PagePreserving
  /\ getPageCount(dResult.outputBuffer) = 45

\* C9: a document that is not a pdf, or a pdf of at most maxPagesPerRequest
\* pages, gets exactly one translate call, carrying the whole document, and
\* the call's result is what is returned; a document that is not a pdf is
\* never split; an oversized pdf gets segment calls only.
DirectCase ==
  /\ ValidationError(dArgs) = ""
  /\ \/ dArgs.mimeType # PDF
     \/ dArgs.content.kind = "pdf" /\ DocPages <= DefaultMaxPagesPerRequest
C9_OneDirectCallUnlessOversized ==
  /\ DirectCase =>
       /\ dCalls \in {<<>>, <<[parent |-> RequestParent(dArgs),
                             targetLanguageCode |-> dArgs.targetLanguageCode,
                             sourceLanguageCode |-> "undefined",
                             content |-> dArgs.content, mimeType |-> dArgs.mimeType,
                             segment |-> FALSE, tuning |-> NoTuning]>>}
       /\ (dpc \in {"direct_wait", "done"}) => Len(dCalls) = 1
       /\ (dpc = "failed") => Len(dCalls) = 1
       /\ dMerges = <<>>
       /\ (dpc = "done" =>
             /\ dLastReply.kind = "ok"
             /\ dResult.outputBuffer =
                  (IF dLastReply.stream.enc = "falsy" THEN EmptyBuffer
                   ELSE dLastReply.stream.data)
             /\ dResult.outputMimeType =
                  (IF dLastReply.mimeType # "" THEN dLastReply.mimeType ELSE dArgs.mimeType)
             /\ dResult.detectedLanguageCode = dLastReply.lang)
  /\ (dArgs.mimeType # PDF => dSplitCalls = 0 /\ dChunks = <<>>)
  /\ (Oversized => \A i \in 1..Len(dCalls) : dCalls[i].segment)
C9_Witness ==
  /\ dArgs.mimeType = PDF /\ dArgs.content.kind = "pdf"
  /\ DocPages = DefaultMaxPagesPerRequest
  /\ dpc = "done" /\ Len(dCalls) = 1 /\ dSplitCalls = 1

\* C10: the detected language of a split document is the language reported
\* by the first segment, in ascending order, that reports a non-empty one
\* ("" when none does): segments reporting "", "en", "en-GB" give "en".
RECURSIVE FirstNonEmptyLang(_, _)
FirstNonEmptyLang(reported, i) ==
  IF i > Len(reported) THEN ""
  ELSE IF reported[i].lang # "" THEN reported[i].lang
  ELSE FirstNonEmptyLang(reported, i + 1)
C10_FirstNonEmptyDetectedLanguageWins ==
  Oversized =>
    /\ dDetected = FirstNonEmptyLang(dReported, 1)
    /\ (dpc = "done" =>
          /\ dResult.detectedLanguageCode = FirstNonEmptyLang(dReported, 1)
          /\ (dResult.detectedLanguageCode = "") =
               (\A i \in 1..Len(dReported) : dReported[i].lang = ""))
C10_Witness ==
  /\ Oversized /\ dpc = "done"
  /\ [i \in 1..Len(dReported) |-> dReported[i].lang] = <<"", "en", "en-GB">>
  /\ dResult.detectedLanguageCode = "en"

\* The segment size the splitter works with, and its input's page count.
SplitSize == Max(1, Floor(sChunkSize))
SplitPages == getPageCount(sInput)

\* C7: for P > S >= 1 the splitter returns totalPages = P and ceil(P/S)
\* segments, segment k holding the pages [k*S, min(P, (k+1)*S)) in order: all
\* but the last have S pages, the last has P mod S (S when that is 0).
C7_SplitterWindows ==
  (sStage \in {"split", "merged"} /\ sInput.kind = "pdf"
     /\ Floor(sChunkSize) >= 1 /\ SplitPages > Floor(sChunkSize)) =>
    LET S == Floor(sChunkSize)
        P == SplitPages
        n == Len(sSplit.chunks)
    IN /\ sSplit.ok
       /\ sSplit.totalPages = P
       /\ n = CeilDiv(P, S)
       /\ \A k \in 1..n :
            sSplit.chunks[k] = Pdf(PageRange((k - 1) * S, Min(P, k * S)))
       /\ \A k \in 1..(n - 1) : getPageCount(sSplit.chunks[k]) = S
       /\ getPageCount(sSplit.chunks[n]) = (IF P % S = 0 THEN S ELSE P % S)
       /\ PagesOfFirst(sSplit.chunks, n) = sInput.pages
C7_Witness ==
  /\ sStage = "split" /\ sInput.kind = "pdf" /\ SplitPages = 7
  /\ sChunkSize = <<3, 1>> /\ Len(sSplit.chunks) = 3
  /\ getPageCount(sSplit.chunks[3]) = 1

\* C8: for every page count and every segment size >= 1, merging the
\* splitter's segments in the order returned gives back the source's pages,
\* the same pages in the same order.
C8_SplitThenMergeRoundTrip ==
  (sStage = "merged" /\ Floor(sChunkSize) >= 1) =>
    /\ sMerged.ok
    /\ sMerged.buffer = sInput
    /\ getPageCount(sMerged.buffer) = sSplit.totalPages
C8_Witness ==
  /\ sStage = "merged" /\ SplitPages = 8 /\ sChunkSize = <<3, 1>>
  /\ Len(sSplit.chunks) = 3 /\ sMerged.buffer = sInput

\* Items whose iteratorFn invocation has started and has not completed.
Outstanding == {k \in 1..Len(pItems) : pState[k] = "running"}

\* C1: in a run of asyncPool over N items with an integer limit L,
\* 1 <= L < N, never more than L invocations of iteratorFn are started and
\* not yet completed, whatever order the invocations complete in.
C1_AtMostLimitOutstanding ==
  (ppc # "idle" /\ pLimit >= 1 /\ pLimit < Len(pItems)) =>
    /\ Cardinality(Outstanding) <= pLimit
    /\ Outstanding \subseteq executing
    /\ Cardinality(executing) <= pLimit
C1_Witness ==
  /\ pLimit = 2 /\ Len(pItems) = 3 /\ pI = 3 /\ ppc = "await"
  /\ Outstanding = {1, 3}
  /\ pSettled = <<2>>

\* C2: when no invocation rejects, asyncPool resolves with an array of
\* length N whose entry i is what iteratorFn(items[i], i) produced, whatever
\* order the invocations completed in.
C2_ResultsInInputOrder ==
  /\ ((pUnit = "generic" /\ ppc = "done") =>
        /\ Len(pResult) = Len(pItems)
        /\ \A k \in 1..Len(pItems) :
             pResult[k] = <<"value", pItems[k], k - 1>>)
  /\ ((pUnit = "generic" /\ \A k \in 1..Len(pItems) : pItems[k] # "bad") =>
        ppc # "failed" /\ pError = NoError)
C2_Witness ==
  /\ ppc = "done" /\ Len(pItems) = 3
  /\ pItems[1] # pItems[3]
  /\ pSettled = <<3, 2, 1>>
  /\ Len(pResult) = 3

\* The path a request takes through the handler.
BatchMode ==
  IF bCfg.projectId = "" \/ bReq.to = "" \/ Len(bReq.files) = 0 THEN "rejected"
  ELSE IF Len(bReq.files) = 1 THEN "single"
  ELSE IF isTruthy(bReq.combineAllToTxt) THEN "combineAll"
  ELSE IF /\ isTruthy(bReq.combineImages)
          /\ \A k \in 1..Len(bReq.files) : isImageMime(EffectiveMimeType(bReq.files[k]))
  THEN "combineImages"
  ELSE "archive"
\* The outcomes file j can have by itself in the archive, and in a combined
\* text.
OwnEntries(j) ==
  {ArchiveEntry(bReq.files[j], t, bReq.to) : t \in Traces(bReq.files[j], FALSE)}
OwnBlocks(j) == {o.value : o \in UnitOutcomes(pUnit, bReq.files[j], j - 1)}

\* C6: in Archive mode and on both Combined-text paths, the failure of one
\* item (unsupported type, malformed document, service error, OCR finding no
\* text) never keeps the other items from being processed and reported: no
\* invocation rejects and the pool never fails, the request always has a
\* next step until it is answered, and the 200 answer carries exactly one
\* outcome per item, outcome j being one that item j yields by itself.
C6_ItemFailuresAreIsolated ==
  /\ (BatchMode \in {"combineAll", "combineImages"} /\ bpc # "start") =>
       /\ ppc # "failed"
       /\ \A k \in 1..Len(pItems) : pState[k] # "rejected"
       /\ bpc = "pool" => ENABLED NextBatch
       /\ bpc = "responded" =>
            /\ Len(bResponses) = 1 /\ bResponses[1].status = 200
            /\ { pStarted[k] : k \in 1..Len(pStarted) } = 1..Len(bReq.files)
            /\ Len(pResult) = Len(bReq.files)
            /\ \A j \in 1..Len(bReq.files) : pResult[j] \in OwnBlocks(j)
  /\ (BatchMode = "archive" /\ bpc # "start") =>
       /\ bProcessed = [k \in 1..(bIdx - 1) |-> k]
       /\ Len(bEntries) = bIdx - 1
       /\ \A j \in 1..Len(bEntries) : bEntries[j] \in OwnEntries(j)
       /\ bpc = "archive" => ENABLED NextBatch
       /\ bpc = "responded" =>
            /\ Len(bResponses) = 1 /\ bResponses[1].status = 200
            /\ bResponses[1].entries = bEntries
            /\ Len(bEntries) = Len(bReq.files)
\* A combined text is sent whose first block reports the failure of the
\* first file and whose second block is the second file's translation,
\* the second file having completed first.
C6_Witness ==
  /\ BatchMode = "combineAll" /\ bpc = "responded"
  /\ Len(bReq.files) = 2
  /\ bReq.files[1].originalname = "nota.txt"
  /\ bReq.files[2].originalname = "doc.pdf"
  /\ pSettled = <<2, 1>>
  /\ pResult[1] = Block("nota.txt", <<"[ERRO] ", ERR_UNSUPPORTED>>)
  /\ pResult[2] = Block("doc.pdf", <<"texto do documento">>)
  /\ bResponses[1].status = 200

\* The processing of a file succeeded.
Succeeded(t) == t.end \in {"image_ok", "doc_ok"}
\* The message of a failed processing, in the archive.
ArchiveMessage(t) ==
  CASE t.end = "no_text" -> "OCR did not detect any text in the image."
    [] t.end = "no_mime" -> "Could not determine MIME type."
    [] OTHER -> t.error

\* C11: in Archive mode with N >= 2 items the archive receives exactly N item
\* entries, one per item and in the items' order: for an item that succeeds
\* the translated bytes under <base>_<targetLang>_translations<ext> (.txt and
\* the translated text for an image), for an item that fails a text entry
\* <base>_error.txt holding the error message; never both, never neither.
C11_OneArchiveEntryPerItem ==
  (BatchMode = "archive" /\ bpc # "start") =>
    /\ Len(bEntries) = Len(bTraces)
    /\ Len(bEntries) <= Len(bReq.files)
    /\ bpc = "responded" =>
         /\ Len(bEntries) = Len(bReq.files)
         /\ bResponses[Len(bResponses)].entries = bEntries
    /\ \A j \in 1..Len(bEntries) :
         LET f == bReq.files[j]
             t == bTraces[j]
             e == bEntries[j]
             base == IF f.originalname = "" THEN "file" ELSE basename(f.originalname)
         IN IF Succeeded(t)
            THEN /\ e.name = <<base, "_", bReq.to, "_translations",
                               (IF t.end = "image_ok" THEN ".txt"
                                ELSE extname(f.originalname))>>
                 /\ IF t.end = "image_ok"
                    THEN e.text = t.text /\ e.buffer = EmptyBuffer
                    ELSE e.buffer = t.buffer /\ e.text = <<>>
            ELSE /\ e.name = <<base, "_error", ".txt">>
                 /\ e.text = <<ArchiveMessage(t), "LF">>
                 /\ e.buffer = EmptyBuffer
\* An archive of two entries is sent: the first file's processing threw and
\* gave its error entry, the second gave its translated bytes.
C11_Witness ==
  /\ BatchMode = "archive" /\ bpc = "responded"
  /\ Len(bReq.files) = 2
  /\ bTraces[1].end = "throws" /\ bTraces[2].end = "doc_ok"
  /\ bEntries[1].name = <<"nota", "_error", ".txt">>
  /\ bEntries[1].text = <<ERR_UNSUPPORTED, "LF">>
  /\ bEntries[2].name = <<"doc", "_", "pt", "_translations", ".pdf">>
  /\ bEntries[2].buffer = TranslatePages(PdfOfPages(1))

CombinedMode == BatchMode \in {"combineAll", "combineImages"}
\* The text of a block as it is written: the combineImages path replaces
\* CR LF by LF here, the combineAllToTxt path already did.
Written(text, normalize) ==
  IF normalize THEN [i \in 1..Len(text) |-> IF text[i] = "CRLF" THEN "LF" ELSE text[i]]
  ELSE text
\* The first n blocks, each as separator line, text and newline, with k blank
\* lines before every block but the first.
RECURSIVE JoinUpTo(_, _, _, _)
JoinUpTo(blocks, n, normalize, k) ==
  IF n = 0 THEN <<>>
  ELSE JoinUpTo(blocks, n - 1, normalize, k)
         \o (IF n > 1 THEN [i \in 1..k |-> "LF"] ELSE <<>>)
         \o <<"===== ", (IF blocks[n].title = "" THEN "file" ELSE blocks[n].title),
              " =====", "LF">>
         \o Written(blocks[n].text, normalize)
         \o <<"LF">>

\* C13: in Combined-text mode the labeled blocks appear in the output in the
\* input order of the items, whatever order the units of work completed in:
\* block i is the block item i's unit of work returned.
C13_BlocksInInputOrder ==
  (CombinedMode /\ bpc = "responded") =>
    /\ Len(pResult) = Len(bReq.files)
    /\ \A i \in 1..Len(bReq.files) :
         /\ pResult[i] = pValue[i].value
         /\ pResult[i].title =
              (IF bReq.files[i].originalname # "" THEN bReq.files[i].originalname
               ELSE IF pUnit = "combineAll" THEN "file" ELSE "image")
    /\ bResponses[1].text =
         JoinUpTo([i \in 1..Len(bReq.files) |-> pValue[i].value], Len(bReq.files),
                  pUnit = "combineImages", bSpacing)
\* The second file completed before the first, and the text starts with the
\* first file's block.
C13_Witness ==
  /\ CombinedMode /\ bpc = "responded"
  /\ Len(bReq.files) = 2
  /\ bReq.files[1].originalname = "foto.png"
  /\ bReq.files[2].originalname = "doc.pdf"
  /\ pSettled = <<2, 1>>
  /\ Len(bResponses[1].text) > 2
  /\ bResponses[1].text[2] = "foto.png"

\* The spacing a form value stands for: none when it is absent, empty or no
\* number, else its integer part kept within 0..20.
Clamped(value) ==
  IF value.kind # "number" THEN 0
  ELSE LET n == value.q[1] \div value.q[2]
       IN IF n < 0 THEN 0 ELSE IF n > 20 THEN 20 ELSE n

CombinedMessage(t) ==
  CASE t.end = "no_text" -> "OCR nao detectou texto."
    [] t.end = "no_mime" -> "Nao foi possivel determinar o MIME type."
    [] OTHER -> t.error

\* C15: in Combined-text mode a per-item failure (OCR finds no text, the MIME
\* type cannot be determined or is unsupported, OCR, translation or
\* extraction throws) is rendered inside that item's block as '[ERRO] '
\* followed by the message; the other items' blocks are what those items
\* yield by themselves, and the combined document is sent with status 200.
C15_FailureRenderedInline ==
  (CombinedMode /\ bpc # "start") =>
    /\ \A j \in 1..Len(pItems) :
         /\ pState[j] # "rejected"
         /\ pState[j] = "fulfilled" =>
              LET b == pValue[j].value
              IN /\ b.title # ""
                 /\ \E t \in Traces(bReq.files[j], pUnit = "combineAll") :
                      IF Succeeded(t)
                      THEN b.text = Written(t.text, t.end = "image_ok" /\ pUnit = "combineAll")
                      ELSE b.text = <<"[ERRO] ", CombinedMessage(t)>>
    /\ bpc = "responded" =>
         /\ Len(bResponses) = 1
         /\ bResponses[1].status = 200 /\ bResponses[1].type = "text/plain"
         /\ bResponses[1].text =
              JoinUpTo([i \in 1..Len(pItems) |-> pValue[i].value], Len(pItems),
                       pUnit = "combineImages", bSpacing)
\* A combined text of two images is sent with status 200: OCR found no text
\* in the first, whose block says so, and the second block is the second
\* image's translation.
C15_Witness ==
  /\ BatchMode = "combineImages" /\ bpc = "responded"
  /\ Len(bReq.files) = 2
  /\ pResult[1].text = <<"[ERRO] ", "OCR nao detectou texto.">>
  /\ pResult[2].text = <<"ola", "CRLF", "mundo">>
  /\ bResponses[1].status = 200
  /\ bResponses[1].text =
       <<"===== ", "foto.png", " =====", "LF", "[ERRO] ", "OCR nao detectou texto.", "LF">>
         \o [i \in 1..bSpacing |-> "LF"]
         \o <<"===== ", "foto.png", " =====", "LF", "ola", "LF", "mundo", "LF">>

\* What the state shows of the path taken.
Passthrough ==
  /\ ppc = "idle" /\ bEntries = <<>> /\ bFinalized = 0
  /\ bpc \in {"single", "responded"}
  /\ bpc = "responded" =>
       /\ bProcessed = <<1>>
       /\ bResponses[1].type \in {"document", "text/plain", "message"}
       /\ bResponses[1].status = 200 =>
            bResponses[1].filename[1] = safeBaseName(bReq.files[1].originalname)
CombinedText(unit) ==
  /\ pUnit = unit /\ ppc # "idle" /\ bEntries = <<>> /\ bFinalized = 0 /\ bProcessed = <<>>
  /\ bpc \in {"pool", "responded"}
  /\ bpc = "responded" =>
       /\ bResponses[1].type = "text/plain"
       /\ bResponses[1].filename[1] =
            (IF unit = "combineAll" THEN "combined_" ELSE "images_")
Archive ==
  /\ ppc = "idle"
  /\ bpc \in {"archive", "responded"}
  /\ bpc = "responded" => bResponses[1].type = "application/zip" /\ bFinalized = 1

FreedAfter(i) ==
  /\ ppc = "await" /\ pI = i /\ i < Len(pItems)
  /\ FirstSettledFrom(pSettled, racing, 1) # 0
  /\ pState[FirstSettledFrom(pSettled, racing, 1)] = "fulfilled"
Started(k) == \E n \in 1..Len(pStarted) : pStarted[n] = k

\* C17: when the runner is at capacity and unstarted items remain, the
\* completion of any one outstanding invocation, not necessarily the oldest,
\* leads to the start of the next unstarted item without any other
\* invocation having to complete; items are always started in input order.
C17_NextAdmittedOnAnyCompletion ==
  /\ [](pStarted = [n \in 1..Len(pStarted) |-> n])
  /\ \A i \in 1..(MaxItems - 1) : (FreedAfter(i) ~> Started(i + 1))
\* With limit 2 the second invocation completed and the third item was
\* started while the first invocation was still outstanding.
C17_Witness ==
  /\ pUnit = "generic" /\ pLimit = 2 /\ Len(pItems) = 3
  /\ pState[1] = "running" /\ pState[2] = "fulfilled"
  /\ Started(3)

\* Some invocation of iteratorFn has rejected.
SomeRejected == \E k \in 1..Len(pItems) : pState[k] = "rejected"

\* C18: if any invocation lets an exception escape, the whole run fails: it
\* never returns a results array, it can always go on until it has rejected,
\* and it rejects with the error of an invocation that rejected, whether the
\* rejection happens while items are still being admitted or after all were
\* started.
C18_EscapedRejectionFailsRun ==
  /\ ppc = "done" => ~SomeRejected
  /\ SomeRejected =>
       /\ pResult = <<>>
       /\ ppc # "failed" => ENABLED NextPool
  /\ ppc = "failed" =>
       /\ pResult = <<>>
       /\ \E k \in 1..Len(pItems) : pState[k] = "rejected" /\ pError = pValue[k].value
\* The run rejected while items were still to be admitted.
C18_Witness ==
  /\ pUnit = "generic" /\ ppc = "failed"
  /\ pI < Len(pItems)
  /\ pState[1] = "rejected" /\ pError = <<"error", "bad", 0>>
  /\ pResult = <<>>

\* C19: if the project identity cannot be resolved, the target language is
\* missing or the item list is empty, the request is answered exactly once,
\* with a 4xx status and a short message, before any item is processed: no
\* unit of work is started, nothing is appended to an archive, no text is
\* sent, and nothing happens after the answer.
C19_FatalErrorsAnsweredOnce ==
  ((bCfg.projectId = "" \/ bReq.to = "" \/ Len(bReq.files) = 0) /\ bpc \notin {"idle", "start"})
    =>
    /\ bpc = "responded"
    /\ Len(bResponses) = 1
    /\ bResponses[1].status \in 400..499
    /\ bResponses[1].type = "message"
    /\ bResponses[1].text \in
         {<<"Missing projectId. Set GCP_PROJECT_ID in .env.">>,
          <<"Missing required field: to">>,
          <<"Missing file upload (field name: files)">>}
    /\ bResponses[1].entries = <<>> /\ bResponses[1].buffer = EmptyBuffer
    /\ bProcessed = <<>> /\ bTraces = <<>>
    /\ ppc = "idle" /\ pStarted = <<>>
    /\ bEntries = <<>> /\ bFinalized = 0
    /\ ~ENABLED NextBatch
\* Two files were sent without a target language and the request was turned
\* away.
C19_Witness ==
  /\ bpc = "responded"
  /\ bCfg.projectId # "" /\ bReq.to = "" /\ Len(bReq.files) = 2
  /\ bResponses = <<Message(400, <<"Missing required field: to">>)>>
  /\ bProcessed = <<>>

FourSupported == {PDF, DOCX, PPTX, XLSX}
\* The MIME type translateLocalDocument resolves: the one passed, else the one
\* the path's extension stands for.
ResolvedMime(a) ==
  IF a.mimeType # "" THEN a.mimeType
  ELSE CASE a.inputPath \in {"in.pdf", "grande.pdf", "vazio.pdf", "falta.pdf"} -> PDF
         [] a.inputPath = "in.txt" -> TEXT_PLAIN
         [] OTHER -> ""

\* C20: a document whose MIME type is not one of the four supported types is
\* rejected before any call to the translation capability and before any
\* splitting, by translateDocumentBuffer and, before the file is even read,
\* by translateLocalDocument; the error is the unsupported-MIME error
\* whenever the checks that come first (project, target language, a MIME
\* type and content being there) pass.
C20_UnsupportedMimeRejectedFirst ==
  /\ (dpc # "idle" /\ dArgs.mimeType \notin FourSupported) =>
       /\ dpc \in {"start", "failed"}
       /\ dCalls = <<>> /\ dSplitCalls = 0 /\ dMerges = <<>>
       /\ dResult = NoResult
       /\ dpc = "start" => ENABLED Validate
       /\ (/\ dpc = "failed"
           /\ dArgs.projectId # "" /\ dArgs.targetLanguageCode # ""
           /\ dArgs.mimeType # "" /\ dArgs.content.kind # "empty")
            => dError = ERR_UNSUPPORTED
  /\ (lpc \notin {"idle", "start"} /\ ResolvedMime(lArgs) \notin FourSupported) =>
       /\ lpc = "failed"
       /\ lReads = <<>> /\ lWrites = <<>>
       /\ dpc = "idle" /\ dCalls = <<>> /\ dSplitCalls = 0
       /\ (lArgs.inputPath # "" /\ lArgs.targetLanguageCode # "" /\ ResolvedMime(lArgs) # "")
            => lError = ERR_UNSUPPORTED
\* translateDocumentBuffer was given a pdf over the page limit as text/plain
\* and threw the unsupported-MIME error without a call or a split.
C20_Witness ==
  /\ dpc = "failed" /\ dError = ERR_UNSUPPORTED
  /\ dArgs.mimeType = TEXT_PLAIN
  /\ dArgs.content = PdfOfPages(DefaultMaxPagesPerRequest + 1)
  /\ dCalls = <<>> /\ dSplitCalls = 0
\* ------------------------------------------------------------------ C21
\* C21: an item whose bytes are empty is answered without any external
\* call: no Vision call, no translateText call and no translateDocument
\* call is issued for it, on any of the four paths, for an image as for a
\* document.
C21_EmptyContentNoExternalCall ==
  (ipc # "idle" /\ iFile.buffer = EmptyBuffer) => (iCalls = <<>> /\ dCalls = <<>>)
\* ------------------------------------------------------------------ C22
\* The item is processed by OCR: it is an image, or on the combineImages path.
ImageItem == ipc # "idle" /\ (iMode = "combineImages" \/ isImageMime(EffectiveMimeType(iFile)))
\* A Vision call resolved with no text or with whitespace only.
AnsweredNoText(reply) == reply.kind # "throws" /\ trimIsEmpty(reply.text)
FallbackCalled == Len(iCalls) >= 2 /\ iCalls[2].api = "textDetection"
\* The 'no text detected' outcome in the form of the item's path.
NoTextOutcome ==
  CASE iMode = "single" ->
         /\ iResponses = <<Message(422, <<"OCR did not detect any text in the image.">>)>>
         /\ iEntries = <<>> /\ iBlocks = <<>>
    [] iMode = "archive" ->
         /\ iEntries = <<TextEntry(EntryName(safeBaseName(iFile.originalname),
                                             <<"_error">>, ".txt"),
                                   <<"OCR did not detect any text in the image.", "LF">>)>>
         /\ iResponses = <<>> /\ iBlocks = <<>>
    [] OTHER ->
         /\ iBlocks = <<Block(OrElse(iFile.originalname,
                                     IF iMode = "combineAll" THEN "file" ELSE "image"),
                              <<"[ERRO] ", "OCR nao detectou texto.">>)>>
         /\ iResponses = <<>> /\ iEntries = <<>>
\* C22: for an image item past its first statement, the first call is
\* documentTextDetection and it is made once; textDetection is called, as
\* the second call, exactly when documentTextDetection returned empty or
\* whitespace-only text; and when textDetection too returned no text, the
\* item ends with the 'no text detected' outcome of its mode and no
\* translateText call was made.
C22_OcrFallbackThenNoText ==
  (ImageItem /\ ipc # "start") =>
    /\ Len(iCalls) >= 1 /\ iCalls[1].api = "documentTextDetection"
    /\ \A k \in 2..Len(iCalls) : iCalls[k].api # "documentTextDetection"
    /\ \A k \in 1..Len(iCalls) : iCalls[k].api = "textDetection" => k = 2
    /\ Len(iReplies) >= 1 => (FallbackCalled <=> AnsweredNoText(iReplies[1]))
    /\ (FallbackCalled /\ Len(iReplies) >= 2 /\ AnsweredNoText(iReplies[2])) =>
         /\ ipc = "done"
         /\ NoTextOutcome
         /\ \A k \in 1..Len(iCalls) : iCalls[k].api # "translateText"
\* Witness: both Vision calls were made, the first answered whitespace
\* only and the second nothing, and the single-file path answered 422.
C22_Witness ==
  /\ iMode = "single" /\ ipc = "done" /\ FallbackCalled
  /\ iReplies = <<ApiReply("ok", <<" ">>), ApiReply("absent", <<>>)>>
  /\ Len(iResponses) = 1 /\ iResponses[1].status = 422
\* ------------------------------------------------------------------ C23
\* On the single-file path: the OCR calls found no text; a call of an
\* external capability rejected or translateDocumentBuffer threw.
OcrFoundNoText == FallbackCalled /\ Len(iReplies) >= 2 /\ AnsweredNoText(iReplies[2])
ProcessingThrew ==
  \/ dpc = "failed"
  \/ Len(iReplies) >= 1 /\ iReplies[Len(iReplies)].kind = "throws"
\* C23: a request of exactly 1 item that ends is answered by one response
\* and by no archive entry or text block; a failure of its processing gives
\* an error status: 422 exactly when OCR found no text, 500 with the
\* error's message when a step threw; 200 is sent only when nothing failed.
C23_SingleItemFailureIsHttpError ==
  (iMode = "single" /\ ipc = "done") =>
    /\ Len(iResponses) = 1 /\ iEntries = <<>> /\ iBlocks = <<>>
    /\ OcrFoundNoText <=> iResponses[1].status = 422
    /\ ProcessingThrew <=> iResponses[1].status = 500
    /\ ProcessingThrew => iResponses[1].text = <<iTrace.error>>
    /\ iResponses[1].status \in {200, 400, 422, 500}
    /\ iResponses[1].status = 200 => ~OcrFoundNoText /\ ~ProcessingThrew
    /\ iResponses[1].status = 400 => iCalls = <<>> /\ dCalls = <<>>
\* Witness: the one image of a request had no text for either Vision call
\* and the request was answered 422.
C23_Witness ==
  /\ iMode = "single" /\ ipc = "done"
  /\ iReplies = <<ApiReply("absent", <<>>), ApiReply("ok", <<>>)>>
  /\ iResponses = <<Message(422, <<"OCR did not detect any text in the image.">>)>>
\* ------------------------------------------------------------------ C27
\* The declared MIME type unless it is absent or the generic
\* application/octet-stream, and else the type the name's extension stands for.
DeclaredOrInferred(f) ==
  IF f.mimetype \notin {"", OCTET_STREAM} THEN f.mimetype
  ELSE CASE f.originalname = "foto.png" -> IMAGE_PNG
         [] f.originalname \in {"doc.pdf", "ruim.pdf"} -> PDF
         [] f.originalname = "nota.txt" -> TEXT_PLAIN
         [] OTHER -> ""
\* C27: on every path the item is treated by its effective MIME type, the
\* declared type unless that is absent or application/octet-stream and
\* else the type inferred from the name: the combineImages path runs only
\* on items whose effective type is an image type; on the other paths the
\* item goes to OCR exactly when its effective type is an image type, and
\* else translateDocumentBuffer is given the effective type (the request's
\* mimeType field when there is none), or the item ends for lack of a type.
C27_EffectiveMimeOnEveryPath ==
  LET effective == DeclaredOrInferred(iFile)
      mimeType == IF effective # "" THEN effective ELSE iBodyMime
  IN /\ (ipc # "idle" /\ iMode = "combineImages") => isImageMime(effective)
     /\ ipc \notin {"idle", "start"} =>
          /\ isImageMime(effective) <=>
               (Len(iCalls) >= 1 /\ iCalls[1].api = "documentTextDetection")
          /\ isImageMime(effective) => dpc = "idle"
          /\ (~isImageMime(effective) /\ mimeType = "") =>
               (iTrace.end = "no_mime" /\ dpc = "idle")
          /\ (~isImageMime(effective) /\ mimeType # "") =>
               (dpc # "idle" /\ dArgs.mimeType = mimeType)
\* Witness: on the archive path a file named foto.png and declared as
\* application/octet-stream went to OCR, or on the combineAllToTxt path a
\* file named foto.png and declared as application/pdf went to
\* translateDocumentBuffer as a pdf.
C27_Witness ==
  \/ /\ iMode = "archive" /\ iFile.originalname = "foto.png"
     /\ iFile.mimetype = OCTET_STREAM /\ ipc = "ocr_document"
  \/ /\ iMode = "combineAll" /\ iFile.originalname = "foto.png"
     /\ iFile.mimetype = PDF /\ ipc = "document" /\ dArgs.mimeType = PDF
\* ------------------------------------------------------------------ C28
\* The request passed the handler's checks and was answered.
Answered == bpc = "responded" /\ RequestError(bCfg, bReq) = "" /\ Len(bResponses) = 1
\* A combined-text flag is in effect: combineAllToTxt, or combineImages on
\* files that are all images.
CombineInEffect ==
  \/ bReq.combineAllToTxt \in {"true", "1", "yes", "on"}
  \/ /\ bReq.combineImages \in {"true", "1", "yes", "on"}
     /\ \A k \in 1..Len(bReq.files) : isImageMime(DeclaredOrInferred(bReq.files[k]))
\* The answer to 1 file, when its processing succeeded: the translated
\* file under its own name, a .txt for an image.
OneFileAnswer ==
  (Answered /\ Len(bReq.files) = 1 /\ bResponses[1].status = 200) =>
    LET r == bResponses[1]
        f == bReq.files[1]
    IN /\ r.entries = <<>>
       /\ r.filename[Len(r.filename)] # "translations.zip"
       /\ IF isImageMime(DeclaredOrInferred(f))
          THEN /\ r.type = "text/plain" /\ r.filename[Len(r.filename)] = ".txt"
               /\ r.text = bTraces[1].text
          ELSE /\ r.type = "document" /\ r.buffer = bTraces[1].buffer
               /\ r.filename[Len(r.filename)] = extname(f.originalname)
ZipAnswer ==
  /\ bResponses[1].status = 200
  /\ bResponses[1].type = "application/zip"
  /\ bResponses[1].filename = <<"translations.zip">>
C29_ArchiveFansOut ==
  (BatchMode = "archive" /\ bCfg.imageBatchSize >= 2 /\ Len(bReq.files) >= 2
     /\ bOutstanding = {1})
    => ENABLED ArchiveItemStart
\* ------------------------------------------------------------------ C30
\* Item h is the one unit of work of the run that never completes.
OnlyHungUnit(h) ==
  /\ h <= Len(pItems) /\ pItems[h] = "hung"
  /\ \A k \in 1..Len(pItems) : k # h => pItems[k] # "hung"
OthersCompleted(h) ==
  \A k \in 1..Len(pItems) : k # h => (Started(k) /\ pState[k] = "fulfilled")
\* C30: when one unit of work never completes, the run never returns, and
\* with a limit of 2 or more, the other units completing, every other item
\* is eventually started and completed: only the hung unit's slot is stalled.
C30_HungUnitStallsOnlyItsSlot ==
  \A h \in 1..MaxItems :
    (OnlyHungUnit(h) /\ pLimit >= 2) =>
      /\ [](ppc \notin {"done", "failed"})
      /\ [](h <= Len(pState) => pState[h] \notin {"fulfilled", "rejected"})
      /\ <>[]OthersCompleted(h)
\* Witness: of 3 items under limit 2 the first hangs, the two others have
\* completed, and the run is held at Promise.all.
C30_Witness ==
  /\ Len(pItems) = 3 /\ pLimit = 2 /\ OnlyHungUnit(1)
  /\ pState = <<"running", "fulfilled", "fulfilled">>
  /\ ppc = "all"
\* ------------------------------------------------------------------ C24
\* The input was staged; the call has returned or thrown.
Staged == \E i \in 1..Len(cOps) : cOps[i].op = "save" /\ cOps[i].ok
ConvReturned == cpc \in {"done", "failed"}
\* C24: once the input is staged, by the time the call returns or throws,
\* after every step of the job, a deletion of the staged input was
\* attempted and then, whether or not it succeeded, the cleanup of the
\* output prefix: its listing, and a deletion of every object listed, so
\* that an object is left under the prefix only if its deletion (or the
\* listing) failed.  This holds whether the job succeeded, failed, or left
\* no .docx.
C24_CleanupAlwaysAttempted ==
  (ConvReturned /\ Staged) =>
    \E i \in 1..Len(cOps), j \in 1..Len(cOps) :
      /\ i < j
      /\ cOps[i].phase = "finally" /\ cOps[i].op = "delete" /\ cOps[i].object = InputObject
      /\ cOps[j].phase = "finally" /\ cOps[j].op = "getFiles"
      /\ \A k \in 1..Len(cOps) : cOps[k].phase # "finally" => k < i
      /\ cOps[i].ok <=> InputObject \notin cObjects
      /\ cOps[j].ok =>
           \A o \in cObjects \ {InputObject} :
             \E k \in (j + 1)..Len(cOps) : cOps[k] = Op("finally", "delete", o, FALSE)
      /\ (\A k \in i..Len(cOps) : cOps[k].ok) => cObjects = {}
\* Witness: the job failed after writing a .docx, the deletion of the input
\* failed, and the .docx was deleted all the same before the error was thrown.
C24_Witness ==
  /\ cpc = "failed" /\ cError = ERR_OPERATION
  /\ \E i \in 1..Len(cOps) : cOps[i] = Op("finally", "delete", InputObject, FALSE)
  /\ \E i \in 1..Len(cOps) : cOps[i] = Op("finally", "delete", OutputObjects[1], TRUE)
  /\ cObjects = {InputObject}

\* ------------------------------------------------------------------ C25
\* How the try block ended, read off the operations it attempted.
LastTryOp ==
  cOps[CHOOSE k \in 1..Len(cOps) :
         /\ cOps[k].phase = "try"
         /\ \A m \in (k + 1)..Len(cOps) : cOps[m].phase # "try"]
TryError ==
  CASE LastTryOp.op = "batchTranslateDocument" -> ERR_BATCH
    [] LastTryOp.op = "operation.promise" -> ERR_OPERATION
    [] LastTryOp.op = "getFiles" -> (IF LastTryOp.ok THEN ERR_NO_DOCX ELSE ERR_LIST)
    [] OTHER -> ERR_DOWNLOAD
CleanupStepFailed == \E k \in 1..Len(cOps) : cOps[k].phase = "finally" /\ ~cOps[k].ok
\* C25: whatever step of the cleanup fails, the caller sees what the job
\* produced: the downloaded document is returned when the download
\* succeeded, and else the error of the step of the job that failed is
\* thrown, never an error of the cleanup.
C25_CleanupFailureInvisible ==
  (ConvReturned /\ Staged) =>
    IF LastTryOp.op = "download" /\ LastTryOp.ok
    THEN /\ cpc = "done" /\ cError = ""
         /\ cResult = [outputBuffer |-> DocxOf(cArgs.content), outputMimeType |-> DOCX,
                        detectedLanguageCode |-> ""]
    ELSE /\ cpc = "failed" /\ cError = TryError
         /\ cResult = NoResult
\* Witness: the document was returned although the deletion of the input
\* and the listing of the outputs both failed.
C25_Witness ==
  /\ cpc = "done" /\ cResult.outputBuffer = DocxOf(PdfOfPages(1))
  /\ \E i \in 1..Len(cOps) : cOps[i] = Op("finally", "delete", InputObject, FALSE)
  /\ \E i \in 1..Len(cOps) : cOps[i] = Op("finally", "getFiles", "", FALSE)
\* ------------------------------------------------------------------ C26
\* C26: the three tuning flags apply to pdf only: a translate request for a
\* docx, pptx or xlsx document carries none of the three.
C26_TuningOnPdfRequestsOnly ==
  \A i \in 1..Len(dCalls) :
    dCalls[i].mimeType \in {DOCX, PPTX, XLSX} => dCalls[i].tuning = NoTuning

\* C31: every translate request of a split document carries the parent call's
\* target language, its source language when it has one, each tuning flag the
\* parent has, and the pdf MIME type; two requests of one document differ in
\* nothing but the content.
C31_SegmentRequestsInheritParent ==
  (Oversized /\ ValidationError(dArgs) = "") =>
    /\ \A i \in 1..Len(dCalls) :
         /\ dCalls[i].segment
         /\ dCalls[i].parent = <<"projects", dArgs.projectId, "locations", "global">>
         /\ dCalls[i].targetLanguageCode = dArgs.targetLanguageCode
         /\ dCalls[i].sourceLanguageCode =
              (IF dArgs.sourceLanguageCode = "" THEN "undefined"
               ELSE dArgs.sourceLanguageCode)
         /\ dCalls[i].tuning = dArgs.tuning
         /\ dCalls[i].mimeType = PDF
    /\ \A i, j \in 1..Len(dCalls) :
         [dCalls[i] EXCEPT !.content = dCalls[j].content] = dCalls[j]
C31_Witness ==
  /\ Oversized /\ dpc = "done" /\ Len(dCalls) = 2
  /\ dArgs.sourceLanguageCode = "en" /\ dArgs.targetLanguageCode = "pt"
  /\ dArgs.tuning.isTranslateNativePdfOnly = "true"
  /\ dArgs.tuning.enableShadowRemovalNativePdf = "false"
  /\ dArgs.tuning.enableRotationCorrection = "undefined"
  /\ dCalls[1].content # dCalls[2].content

\* The form value the handler reads the spacing from: betweenTranslationsLines
\* when it was sent, else spacingLines.
SpacingSent ==
  IF bReq.betweenTranslationsLines.kind # "absent" THEN bReq.betweenTranslationsLines
  ELSE bReq.spacingLines
\* The largest integer not above num/den, among the candidates lo..hi.
IntegerPart(q, lo, hi) ==
  CHOOSE m \in lo..hi : m * q[2] <= q[1] /\ q[1] < (m + 1) * q[2]

\* C32: the blank-line count is an integer in 0..20 for every value sent: 0
\* for an absent, empty or non-numeric value, else the number rounded down
\* and kept within 0..20; a combined text has exactly that many blank lines
\* between two blocks.
C32_SpacingWithinZeroToTwenty ==
  bpc # "start" =>
    /\ bSpacing \in 0..20
    /\ SpacingSent.kind \in {"absent", "empty", "nan", "inf"} => bSpacing = 0
    /\ SpacingSent.kind = "number" =>
         LET n == IntegerPart(SpacingSent.q, 0 - 2, 22)
         IN /\ (n < 0 => bSpacing = 0)
            /\ (n \in 0..20 => bSpacing = n)
            /\ (n > 20 => bSpacing = 20)
    /\ (CombinedMode /\ bpc = "responded") =>
         bResponses[1].text =
           JoinUpTo(pResult, Len(pResult), pUnit = "combineImages", bSpacing)
C32_Witness ==
  /\ CombinedMode /\ bpc = "responded" /\ Len(bReq.files) = 2
  /\ bReq.betweenTranslationsLines.kind = "absent"
  /\ bReq.spacingLines = Number(21, 1)
  /\ bSpacing = 20
  /\ bResponses[1].status = 200

\* The combined text whose block i has the given title and the text item i's
\* unit of work produced.
TitledText(titles) ==
  JoinUpTo([i \in 1..Len(bReq.files) |-> [title |-> titles[i], text |-> pResult[i].text]],
           Len(bReq.files), pUnit = "combineImages", bSpacing)
CombinedSent == CombinedMode /\ bpc = "responded" /\ bResponses[1].status = 200

\* C33 as stated: on both combined-text paths the separator line before an
\* item's text is '===== <originalName> =====', or '===== file =====' when the
\* item has no original name.
C33_SeparatorNamesItemOrFile ==
  CombinedSent =>
    bResponses[1].text =
      TitledText([i \in 1..Len(bReq.files) |->
                    IF bReq.files[i].originalname # "" THEN bReq.files[i].originalname
                    ELSE "file"])
\* C33 as amended: the separator line carries the item's original name; for
\* an item without one it is '===== file =====' on the combineAllToTxt path
\* and '===== image =====' on the combineImages path.
C33_SeparatorNamesItemOrPathDefault ==
  CombinedSent =>
    bResponses[1].text =
      TitledText([i \in 1..Len(bReq.files) |->
                    IF bReq.files[i].originalname # "" THEN bReq.files[i].originalname
                    ELSE IF isTruthy(bReq.combineAllToTxt) THEN "file"
                    ELSE "image"])
C33_Witness ==
  /\ CombinedSent /\ ~isTruthy(bReq.combineAllToTxt)
  /\ bReq.files[1].originalname = "foto.png" /\ bReq.files[2].originalname = ""
  /\ bResponses[1].text[2] = "foto.png"
  /\ \E k \in 1..Len(bResponses[1].text) : bResponses[1].text[k] = "image"

\* C34: mergePdfs is never called with an empty list: whenever the merge step
\* is reached the list of outputs has one element per segment, which is at
\* least two, the split path being taken only above maxPagesPerRequest pages.
C34_MergeNeverOnEmptyList ==
  /\ Len(dMerges) <= 1
  /\ \A m \in 1..Len(dMerges) :
       /\ Len(dMerges[m]) >= 2
       /\ Len(dMerges[m]) = Len(dChunks)
       /\ Len(dMerges[m]) = CeilDiv(DocPages, DefaultMaxPagesPerRequest)
       /\ Oversized
  /\ dpc = "merge" =>
       /\ Len(dOutputs) = Len(dChunks) /\ Len(dOutputs) >= 2
       /\ Len(dReported) = Len(dChunks)
       /\ \A k \in 1..Len(dReported) : dReported[k].kind = "ok"
C34_Witness ==
  /\ Len(dMerges) = 1 /\ Len(dMerges[1]) = 2
  /\ DocPages = DefaultMaxPagesPerRequest + 1
  /\ dpc = "done"

\* The call lacks the project id, the target language, a storage bucket or
\* the content.
ConvLacksArgument ==
  \/ cArgs.projectId = ""
  \/ cArgs.targetLanguageCode = ""
  \/ cArgs.gcsBucket \in {"", "gs://"}
  \/ cArgs.content = EmptyBuffer

\* C35: without a configured storage bucket (or without the project id, the
\* target language or the content) translatePdfToDocxBuffer fails before any
\* object is staged in storage and before any batch job is started: it
\* performs no operation at all, and throws.
C35_ConversionGatedByConfiguration ==
  (cpc # "idle" /\ ConvLacksArgument) =>
    /\ cOps = <<>> /\ cObjects = {} /\ cListed = <<>>
    /\ cpc \in {"start", "failed"}
    /\ cResult = NoResult
    /\ cpc = "failed" =>
         cError = (IF cArgs.projectId = "" THEN ERR_PROJECT
                   ELSE IF cArgs.targetLanguageCode = "" THEN ERR_TARGET
                   ELSE IF cArgs.gcsBucket \in {"", "gs://"} THEN ERR_BUCKET
                   ELSE ERR_CONTENT)
C35_Witness ==
  /\ cpc = "failed" /\ cError = ERR_BUCKET /\ cOps = <<>>
  /\ cArgs.gcsBucket = "" /\ cArgs.projectId # "" /\ cArgs.targetLanguageCode # ""
  /\ cArgs.content = PdfOfPages(1)

\* No item of the run makes iteratorFn reject.
NoneRejects == \A k \in 1..Len(pItems) : pItems[k] # "bad"

\* C36: in a run where no invocation rejects, iteratorFn is invoked exactly
\* once per item: never twice on one item, on every item the loop has passed
\* once the loop is over and its callbacks have run, and on all of them when
\* asyncPool returns, whatever the limit and the order of completion.
C36_EachItemInvokedOnce ==
  (ppc # "idle" /\ pUnit = "generic" /\ NoneRejects) =>
    /\ \A i, j \in 1..Len(pStarted) : pStarted[i] = pStarted[j] => i = j
    /\ \A i \in 1..Len(pStarted) : pStarted[i] \in 1..Len(pItems)
    /\ \A k \in 1..Len(pItems) :
         (pState[k] \in {"running", "fulfilled"}) = (\E i \in 1..Len(pStarted) : pStarted[i] = k)
    /\ ppc \in {"all", "done"} => \A k \in 1..Len(pItems) : pState[k] # "none"
    /\ ppc = "done" =>
         /\ Len(pStarted) = Len(pItems)
         /\ {pStarted[i] : i \in 1..Len(pStarted)} = 1..Len(pItems)
    /\ ppc # "failed"
C36_Witness ==
  /\ NoneRejects /\ pUnit = "generic" /\ ppc = "done"
  /\ Len(pItems) = 3 /\ pLimit = 2
  /\ pStarted = <<1, 2, 3>> /\ pSettled = <<2, 1, 3>>

\* C37: for every number of items and every integer limit, zero and negative
\* ones included, a run whose invocations all complete eventually returns
\* (with the results when none rejects); it never awaits a race among no
\* promises; and under a limit of 1 or less at most one invocation is under
\* way at any time.
C37_PoolReturnsForEveryLimit ==
  /\ <>(ppc \in {"done", "failed"})
  /\ (NoneRejects => <>(ppc = "done" /\ Len(pResult) = Len(pItems)))
  /\ [](ppc = "await" => (racing # {} /\ racing \subseteq executing \cup
                                            {k \in 1..Len(pItems) :
                                               pState[k] \in {"fulfilled", "rejected"}}))
  /\ [](pLimit <= 1 => Cardinality(executing) <= 1 /\ Cardinality(Outstanding) <= 1)
C37_Witness ==
  /\ pLimit = 0 - 1 /\ Len(pItems) = 3 /\ NoneRejects
  /\ ppc = "done" /\ pStarted = <<1, 2, 3>> /\ pSettled = <<1, 2, 3>>

\* The outputs call d received for its own requests, in the order of its
\* segments, and the pages of document d.
OwnOutputs(d) == [k \in 1..Len(mDoc[d].got) |-> mDoc[d].got[k].data]
OwnPages(d) == mDoc[d].args.content.pages
OwnPageNumbers(d) == {OwnPages(d)[i].n : i \in 1..Len(OwnPages(d))}

\* C38: when two oversized pdfs are translated at once and their segment
\* calls interleave, each call requests its own document's segments in
\* ascending order, its merged output holds exactly the outputs of its own
\* requests in that order, and its detected language is the first one its
\* own replies reported: nothing of the other document enters it.
C38_ConcurrentDocumentsStayApart ==
  \A d \in DOMAIN mDoc :
    /\ \A k \in 1..Len(mDoc[d].calls) :
         mDoc[d].calls[k].content =
           Pdf(SubSeq(OwnPages(d), (k - 1) * DefaultMaxPagesPerRequest + 1,
                      Min(Len(OwnPages(d)), k * DefaultMaxPagesPerRequest)))
    /\ mDoc[d].pc \in {"seg_call", "seg_wait", "merge", "done"} =>
         /\ mDoc[d].outputs = OwnOutputs(d)
         /\ mDoc[d].detected = FirstNonEmptyLang(mDoc[d].got, 1)
    /\ mDoc[d].pc = "done" =>
         /\ Len(mDoc[d].got) = CeilDiv(Len(OwnPages(d)), DefaultMaxPagesPerRequest)
         /\ mDoc[d].result.outputBuffer =
              Pdf(PagesOfFirst(OwnOutputs(d), Len(mDoc[d].got)))
         /\ mDoc[d].result.detectedLanguageCode = FirstNonEmptyLang(mDoc[d].got, 1)
         /\ \A i \in 1..Len(mDoc[d].result.outputBuffer.pages) :
              mDoc[d].result.outputBuffer.pages[i].n \in OwnPageNumbers(d)
\* Both calls are over, each request of the second was issued while a request
\* of the first was in flight and the other way round, the replies reported
\* different languages, and each result holds its own document's pages.
C38_Witness ==
  /\ \A d \in Invocations : mDoc[d].pc = "done" /\ mDoc[d].amid /\ Len(mDoc[d].got) = 2
  /\ mDoc[1].result.detectedLanguageCode = "en"
  /\ mDoc[2].result.detectedLanguageCode = "en-GB"
  /\ mDoc[1].result.outputBuffer.pages = Translated(OwnPages(1))
  /\ mDoc[2].result.outputBuffer.pages = Translated(OwnPages(2))

\* C39: every request gets exactly one response: never two, and on no path,
\* an archive error raised after the archive was piped to the response
\* included, is a status or body sent on a response already started.
C39_ExactlyOneResponse ==
  /\ Len(bResponses) <= 1
  /\ \A i \in 1..Len(rAttempts) : ~rAttempts[i].started
  /\ bpc \in {"responded", "closed"} => headersSent
\* C40: translateLocalDocument and translateLocalImage write the output file
\* only after the whole translation has succeeded: while the call runs and
\* when a check, the read, the OCR, a translate call or the merge has failed,
\* no file has been written and the error of the failing step is the one
\* thrown; a file written holds the whole translated output, once.
LocalTranslationSucceeded ==
  \/ lpc \in {"done", "failed"} /\ iMode = "none" /\ dpc = "done"
  \/ lpc \in {"done", "failed"} /\ iMode = "local" /\ ipc = "done"
       /\ iTrace.end = "image_ok"
C40_OutputWrittenOnlyAfterSuccess ==
  /\ Len(lWrites) <= 1
  /\ lWrites # <<>> => LocalTranslationSucceeded
  /\ lWrites # <<>> /\ iMode = "none" => lWrites[1].data = dResult.outputBuffer
  /\ lWrites # <<>> /\ iMode = "local" => lWrites[1].data = Utf8Text(iTrace.text)
  /\ lpc = "failed" /\ lError # ERR_WRITE => lWrites = <<>>
  /\ lpc = "failed" /\ dpc = "failed" => lError = dError
  /\ lpc = "failed" /\ iTrace.end = "throws" => lError = iTrace.error
  /\ lpc = "failed" /\ iTrace.end = "no_text" => lError = ERR_NO_TEXT
  /\ lpc = "done" => Len(lWrites) = 1 /\ lWrites[1].path = lResult.outputPath
\* A segment of an oversized document was rejected after another had been
\* translated, and nothing was written.
C40_Witness ==
  /\ lpc = "failed" /\ dpc = "failed" /\ Len(dOutputs) >= 1 /\ lWrites = <<>>
  /\ lError = dError

====
